---- MODULE Spec2Model ----
(***************************************************************************)
(* Resumable batch collection engine of deeptech-startup-data:            *)
(*   - the batch extractor      (extract_epo_publications_batch.py)        *)
(*   - the batch orchestrator   (run_website_enrichment_batches.py)        *)
(*   - the retry patcher        (retry_epo_publications_errors.py)         *)
(* A ledger is a JSONL file.  A file is modelled as the sequence of its    *)
(* physical lines plus one bit saying whether the last line is terminated  *)
(* by a newline.                                                           *)
(***************************************************************************)
EXTENDS Integers, Sequences, FiniteSets, TLC

(***************************************************************************)
(* Bounds of the model.                                                    *)
(***************************************************************************)
MaxRuns == 3
MaxBatchSize == 2
MaxUnits == 2
MaxShards == 3
MaxOrchUnits == 3
MaxBatches == 1
MaxEdits == 1
MaxLedger == 3
MaxPages == 3
MaxPageItems == 2
MaxAttempts == 2
MaxRetryPages == 2

MaxConcurrent == 1

(***************************************************************************)
(* Unit identifiers (non-empty strings) in the order of the snapshot.      *)
(***************************************************************************)
IdOrder == <<"a", "b", "c", "d", "e">>

Ids == {IdOrder[k] : k \in 1..Len(IdOrder)}

IdPos(i) == CHOOSE k \in 1..Len(IdOrder) : IdOrder[k] = i

Min2(x, y) == IF x < y THEN x ELSE y

Max2(x, y) == IF x > y THEN x ELSE y

RECURSIVE SortedSeq(_)
SortedSeq(S) ==
    IF S = {} THEN <<>>
    ELSE LET m == CHOOSE x \in S : \A y \in S : IdPos(x) <= IdPos(y)
         IN  <<m>> \o SortedSeq(S \ {m})

SeqRange(s) == {s[k] : k \in 1..Len(s)}

(***************************************************************************)
(* Files.                                                                  *)
(* kind "rec"   : the text of one JSON record object                       *)
(* kind "torn"  : a proper prefix of a record's text (not parseable)       *)
(* kind "junk"  : an unterminated tail followed by further text on the     *)
(*                same physical line (not parseable)                       *)
(* kind "blank" : an empty or whitespace-only line                         *)
(***************************************************************************)
Rec(i, st, rt) == [kind |-> "rec", id |-> i, st |-> st, retried |-> rt]

Torn == [kind |-> "torn", id |-> "", st |-> "none", retried |-> FALSE]

Junk == [kind |-> "junk", id |-> "", st |-> "none", retried |-> FALSE]

Blank == [kind |-> "blank", id |-> "", st |-> "none", retried |-> FALSE]

\* A line that is valid JSON and no object: null, 3, "x", [1].
NonObject == [kind |-> "nonobj", id |-> "", st |-> "none", retried |-> FALSE]

NoFile == [exists |-> FALSE, lines |-> <<>>, eol |-> TRUE]

EmptyFile == [exists |-> TRUE, lines |-> <<>>, eol |-> TRUE]

MkFile(ls) == [exists |-> TRUE, lines |-> ls, eol |-> TRUE]

ReplaceLast(ls, x) == [ls EXCEPT ![Len(ls)] = x]

\* The text of one record followed by "\n" reaches the end of the file.
AppendLine(f, r) ==
    IF f.eol
    THEN [exists |-> TRUE, lines |-> Append(f.lines, r), eol |-> TRUE]
    ELSE [exists |-> TRUE, lines |-> ReplaceLast(f.lines, Junk), eol |-> TRUE]

\* Only a proper prefix of the line's text has reached the file.
AppendPartial(f, r) ==
    IF f.eol
    THEN [exists |-> TRUE, lines |-> Append(f.lines, Torn), eol |-> FALSE]
    ELSE [exists |-> TRUE, lines |-> ReplaceLast(f.lines, Junk), eol |-> FALSE]

\* The rest of a partially written line reaches the file.
CompletePartial(f, r) ==
    IF f.lines[Len(f.lines)].kind = "junk"
    THEN [f EXCEPT !.eol = TRUE]
    ELSE [exists |-> TRUE, lines |-> ReplaceLast(f.lines, r), eol |-> TRUE]

\* The ids that have a record of their own in the file.
RecordIds(f) == {f.lines[k].id : k \in {j \in 1..Len(f.lines) : f.lines[j].kind = "rec"}}

\* The records of the file, in file order.
RecordLines(f) == SelectSeq(f.lines, LAMBDA l : l.kind = "rec")

(***************************************************************************)
(* State.                                                                  *)
(***************************************************************************)
VARIABLES
    fs,          \* the file system: path -> file
    bPc,         \* batch extractor: position of the process
    bUniverse,   \* batch extractor: the entities of the selected roles, in order
    bBatchSize,  \* --batch-size
    bRuns,       \* number of process starts so far
    bDone,       \* done_ids of main()
    bRemaining,  \* remaining of main()
    bBatchNum,   \* batch_num of main()'s loop
    bPos,        \* i of extract_batch()'s loop
    bSession,    \* "none" | "open": the browser of extract_batch()
    bNavOk,      \* whether page.goto succeeded in this batch
    bCur,        \* result of the entity being processed
    bDisk,       \* how much of the line written by f.write is in the file before f.flush
    bSuccess,    \* success_count of extract_batch()
    bFetched,    \* history: ids fetched in the current run
    bSessions,   \* history: sessions opened in the current run
    bWrote,      \* history: whether the current run wrote to the ledger
    bComplete,   \* history: at its start, the current run found a record for every unit
    bAppended,   \* history: the records whose write + flush completed, over all runs
    shUniverse,  \* work partitioner: the ids of the universe
    shTotal,     \* work partitioner: --shard-total
    shSel,       \* work partitioner: shard index -> what load_eligible_company_ids gave
    oUniverse,   \* orchestrator: ids of the rows of companies.csv that have a url
    oShardTotal, \* --shard-total
    oBatchSize,  \* --batch-size
    oMaxBatches, \* --max-batches
    oEdits,      \* number of changes made to the ledger by somebody else
    oClock,      \* --max-runtime-minutes: "none" (0), or the budget "running" | "elapsed"
    orch,        \* orchestrator processes: process -> its arguments, locals, child and history
    pPc,         \* retry patcher: position of the process
    pInplace,    \* --inplace
    pOut,        \* out of main(): the --output path, or <input>_patched
    pErrorIds,   \* error_ids still to retry, sorted
    pRepl,       \* replacements: id -> record
    pPos,        \* rewrite_with_replacements: number of input lines read
    pRenamed,    \* history: os.replace has happened
    pOrig,       \* history: the input ledger as the patcher found it
    fPc,         \* fetch of one unit: position of the call
    fOrg,        \* org_id
    fMax,        \* --max-attempts as given on the command line (retry patcher)
    fAttempt,    \* attempt of fetch_all_publications (retry patcher)
    fPageNo,     \* number of page fetches issued in this call (in this attempt)
    fToken,      \* token
    fPubs,       \* all_pubs / pubs
    fResult,     \* what the function returned
    fRepl,       \* the replacement record main() builds from it (retry patcher)
    fLog,        \* history: the fetches with their responses, the sleeps, the refreshes
    scanPc,      \* done-set scan of one ledger: "ready" | "done" | "raised"
    scanBy,      \* the function that scanned
    scanIds      \* the set it returned

batchVars == <<bPc, bUniverse, bBatchSize, bRuns, bDone, bRemaining, bBatchNum, bPos,
               bSession, bNavOk, bCur, bDisk, bSuccess, bFetched, bSessions, bWrote,
               bComplete, bAppended>>

shardVars == <<shUniverse, shTotal, shSel>>

orchVars == <<oUniverse, oShardTotal, oBatchSize, oMaxBatches, oEdits, oClock, orch>>

patchVars == <<pPc, pInplace, pOut, pErrorIds, pRepl, pPos, pRenamed, pOrig>>

fetchVars == <<fPc, fOrg, fMax, fAttempt, fPageNo, fToken, fPubs, fResult, fRepl, fLog>>

scanVars == <<scanPc, scanBy, scanIds>>

vars == <<fs, batchVars, shardVars, orchVars, patchVars, fetchVars, scanVars>>

nonBatch == <<shardVars, orchVars, patchVars, fetchVars, scanVars>>

nonOrch == <<batchVars, shardVars, patchVars, fetchVars, scanVars>>

nonShard == <<batchVars, orchVars, patchVars, fetchVars, scanVars>>

nonPatch == <<batchVars, shardVars, orchVars, fetchVars, scanVars>>

nonFetch == <<fs, batchVars, shardVars, orchVars, patchVars, scanVars>>

nonScan == <<fs, batchVars, shardVars, orchVars, patchVars, fetchVars>>

nonSingle == <<batchVars, shardVars, orchVars, patchVars, scanVars>>

Paths == {"ledger", "ledger.tmp", "patched", "patched.tmp", "backup", "web", "catalog"}

UnitIds == {IdOrder[k] : k \in 1..MaxUnits}

NoRec == [kind |-> "none", id |-> "", st |-> "none", retried |-> FALSE]

SOff ==
    /\ scanPc = "off"
    /\ scanBy = "none"
    /\ scanIds = {}

(***************************************************************************)
(* Work partitioner: run_website_enrichment_batches.py, lines 58-88        *)
(***************************************************************************)
\* hashlib.sha256(s.encode("utf-8")).hexdigest() of the model's ids, as the 16
\* base-65536 digits of the 256-bit number, most significant first.
Sha256Digits(s) ==
    CASE s = "a" -> <<51863, 33042, 51739, 48586, 64194, 12723, 39459, 56397,
                      42886, 61432, 5244, 20082, 47488, 30597, 45038, 18619>>
      [] s = "b" -> <<15907, 59414, 57, 22858, 13193, 20325, 25825, 45364,
                      35773, 31232, 35028, 11338, 52083, 61102, 54684, 157>>
      [] s = "c" -> <<11901, 11267, 43344, 31458, 26092, 62901, 13672, 34213,
                      13203, 41474, 40228, 5012, 39282, 26017, 41562, 61382>>
      [] s = "d" -> <<6316, 15987, 17392, 5769, 3153, 3731, 63797, 9745,
                      27097, 58357, 25923, 25641, 33551, 44809, 13556, 63716>>
      [] s = "e" -> <<16249, 47995, 17243, 1330, 5713, 56047, 54132, 52678,
                      33244, 1786, 42590, 14158, 14387, 31624, 51716, 28138>>

\* int(h, 16): the number is kept as its digits; x % m is computed digit by digit.
sha256_int(s) == Sha256Digits(s)

RECURSIVE ModDigits(_, _, _)
ModDigits(ds, m, acc) ==
    IF ds = <<>> THEN acc
    ELSE ModDigits(Tail(ds), m, (acc * 65536 + Head(ds)) % m)

\* A wrong variant of the definition below: the modulus taken one too large.
shard_for_company_id_off(company_id, shard_total) ==
    ModDigits(sha256_int(company_id), Max2(1, shard_total) + 1, 0)

shard_for_company_id(company_id, shard_total) ==
    ModDigits(sha256_int(company_id), Max2(1, shard_total), 0)

\* A wrong variant of the definition below: the shard filter left out.
load_eligible_unsharded(universe, shard_index, shard_total) ==
    LET st == Max2(1, shard_total)
    IN  IF shard_index < 0 \/ shard_index >= st
        THEN [exit |-> TRUE, ids |-> {}]
        ELSE [exit |-> FALSE, ids |-> universe]

\* load_eligible_company_ids: exit = TRUE is the SystemExit of line 83.
load_eligible_company_ids(universe, shard_index, shard_total) ==
    LET st == Max2(1, shard_total)
    IN  IF shard_index < 0 \/ shard_index >= st
        THEN [exit |-> TRUE, ids |-> {}]
        ELSE IF st > 1
             THEN [exit |-> FALSE,
                   ids  |-> {i \in universe : shard_for_company_id(i, st) = shard_index}]
             ELSE [exit |-> FALSE, ids |-> universe]

ShardIndexes == 0..(MaxShards - 1)

Unset == [state |-> "unset", ids |-> {}]

ShOff ==
    /\ shUniverse = {}
    /\ shTotal = 1
    /\ shSel = [i \in (ShardIndexes \cup {-1, MaxShards}) |-> [state |-> "off", ids |-> {}]]

\* One call of load_eligible_company_ids, for one shard index.
ShSelect(i) ==
    /\ shSel[i].state = "unset"
    /\ LET r == load_eligible_company_ids(shUniverse, i, shTotal)
       IN  shSel' = [shSel EXCEPT ![i] =
                        [state |-> IF r.exit THEN "exit" ELSE "ok", ids |-> r.ids]]
    /\ UNCHANGED <<fs, shUniverse, shTotal>>
    /\ UNCHANGED nonShard

(***************************************************************************)
(* Batch orchestrator: run_website_enrichment_batches.py                   *)
(***************************************************************************)
Procs == {1, 2}

OrchIds == {IdOrder[k] : k \in 1..MaxOrchUnits}

NoAllow == [given |-> FALSE, ids |-> {}]

\* read_done_company_ids: blank lines and lines that do not parse are skipped;
\* every record counts, whatever its status.
RECURSIVE ReadDoneLines(_)
ReadDoneLines(ls) ==
    IF ls = <<>> THEN {}
    ELSE LET l == Head(ls)
         IN  (IF l.kind = "rec" THEN {l.id} ELSE {}) \cup ReadDoneLines(Tail(ls))

read_done_company_ids(f) == IF f.exists THEN ReadDoneLines(f.lines) ELSE {}

\* read_done_company_ids, line 102: obj.get is called outside the try that
\* guards json.loads; a line that is valid JSON and no object (null, 3, [1])
\* raises AttributeError there, out of the function.
ReadDoneRaises(f) ==
    f.exists /\ \E k \in 1..Len(f.lines) : f.lines[k].kind = "nonobj"

\* A wrong variant of the definition below: every id of the ledger counted, eligible or not.
DoneCountAll(eligible_ids, done_ids) == Cardinality(done_ids)

\* done = len(eligible_ids.intersection(done_ids))
DoneCount(eligible_ids, done_ids) == Cardinality(eligible_ids \cap done_ids)

\* A wrong variant of the definition below: remaining taken from the counts of the last batch instead of the file.
LoopRemainingCounted(p) == orch[p].total - (orch[p].before_done + orch[p].written)

\* lines 305-308: remaining is recomputed from the file at the head of the loop.
LoopRemaining(p) ==
    orch[p].total - DoneCount(orch[p].eligible_ids, read_done_company_ids(fs["web"]))

\* A wrong variant of the definition below: the loop left with one unit remaining.
LoopExitEarly(remaining) == remaining <= 1

\* line 309: if remaining <= 0: break
LoopExit(remaining) == remaining <= 0

\* line 313: the batch-count cap
\* A wrong variant of the definition below: the cap is tested one batch late.
CappedLate(batch_num) == oMaxBatches > 0 /\ batch_num > oMaxBatches + 1

Capped(batch_num) == oMaxBatches > 0 /\ batch_num > oMaxBatches

ProcOff ==
    [pc |-> "off", shard_index |-> 0, allow |-> NoAllow, eligible_ids |-> {}, total |-> 0,
     done |-> 0, remaining |-> 0, batch_num |-> 0, batch_limit |-> 0, before_done |-> 0,
     written |-> 0, cpc |-> "none", todo |-> <<>>, cwritten |-> 0,
     fetched |-> {}, launched |-> 0, complete |-> FALSE]

ProcInit(idx, al) == [ProcOff EXCEPT !.pc = "init", !.shard_index = idx, !.allow = al]

OOff ==
    /\ oUniverse = {}
    /\ oShardTotal = 1
    /\ oBatchSize = 1
    /\ oMaxBatches = 0
    /\ oEdits = 0
    /\ oClock = "none"
    /\ orch = [p \in Procs |-> ProcOff]

\* main(), lines 255-266: the eligible set, the allow-list, the first scan.
OInit(p) ==
    /\ orch[p].pc = "init"
    /\ LET r        == load_eligible_company_ids(oUniverse, orch[p].shard_index, oShardTotal)
           eligible == IF orch[p].allow.given THEN r.ids \cap orch[p].allow.ids ELSE r.ids
           done_ids == read_done_company_ids(fs["web"])
       IN  orch' = [orch EXCEPT ![p] =
                IF r.exit
                THEN [@ EXCEPT !.pc = "exit"]
                ELSE [@ EXCEPT !.pc = "loop",
                               !.eligible_ids = eligible,
                               !.total = Cardinality(eligible),
                               !.done = DoneCount(eligible, done_ids),
                               !.complete = (eligible \subseteq RecordIds(fs["web"]))]]
    /\ UNCHANGED <<fs, oUniverse, oShardTotal, oBatchSize, oMaxBatches, oEdits, oClock>>
    /\ UNCHANGED nonOrch

\* main(), lines 304-330: scan, decide, launch the child of run_one_batch.
OLoop(p) ==
    /\ orch[p].pc = "loop"
    /\ LET done_ids  == read_done_company_ids(fs["web"])
           done      == DoneCount(orch[p].eligible_ids, done_ids)
           remaining == LoopRemaining(p)
       IN  orch' = [orch EXCEPT ![p] =
                IF LoopExit(remaining)
                THEN [@ EXCEPT !.pc = "done", !.done = done, !.remaining = remaining]
                ELSE IF Capped(@.batch_num + 1)
                THEN [@ EXCEPT !.pc = "capped", !.done = done, !.remaining = remaining,
                               !.batch_num = @ + 1]
                ELSE [@ EXCEPT !.pc = "child", !.done = done, !.remaining = remaining,
                               !.batch_num = @ + 1,
                               !.batch_limit = Min2(oBatchSize, remaining),
                               !.before_done = done,
                               !.written = 0,
                               !.cpc = "start", !.todo = <<>>, !.cwritten = 0,
                               !.launched = @ + 1]]
    /\ UNCHANGED <<fs, oUniverse, oShardTotal, oBatchSize, oMaxBatches, oEdits, oClock>>
    /\ UNCHANGED nonOrch

\* The batch child (enrich_websites.py --resume --limit N --shard-index ...):
\* it scans the ledger and takes the first N units of its shard, in id order,
\* that have no record.
ChildEligible(p) ==
    LET r == load_eligible_company_ids(oUniverse, orch[p].shard_index, oShardTotal)
    IN  IF orch[p].allow.given THEN r.ids \cap orch[p].allow.ids ELSE r.ids

ChildPlan(p) ==
    LET todo == SortedSeq(ChildEligible(p) \ RecordIds(fs["web"]))
    IN  SubSeq(todo, 1, Min2(orch[p].batch_limit, Len(todo)))

CStart(p) ==
    /\ orch[p].pc = "child"
    /\ orch[p].cpc = "start"
    /\ orch' = [orch EXCEPT ![p].cpc = "work", ![p].todo = ChildPlan(p)]
    /\ UNCHANGED <<fs, oUniverse, oShardTotal, oBatchSize, oMaxBatches, oEdits, oClock>>
    /\ UNCHANGED nonOrch

\* The child fetches one unit and appends its record, ok or error.
CUnit(p) ==
    /\ orch[p].pc = "child"
    /\ orch[p].cpc = "work"
    /\ orch[p].todo # <<>>
    /\ \E st \in {"ok", "error"} :
          fs' = [fs EXCEPT !["web"] = AppendLine(@, Rec(Head(orch[p].todo), st, FALSE))]
    /\ orch' = [orch EXCEPT ![p].todo = Tail(@),
                            ![p].cwritten = @ + 1,
                            ![p].fetched = @ \cup {Head(orch[p].todo)}]
    /\ UNCHANGED <<oUniverse, oShardTotal, oBatchSize, oMaxBatches, oEdits, oClock>>
    /\ UNCHANGED nonOrch

\* The child ends with exit code 0.
CExit(p) ==
    /\ orch[p].pc = "child"
    /\ orch[p].cpc = "work"
    /\ orch[p].todo = <<>>
    /\ orch' = [orch EXCEPT ![p].cpc = "exit0"]
    /\ UNCHANGED <<fs, oUniverse, oShardTotal, oBatchSize, oMaxBatches, oEdits, oClock>>
    /\ UNCHANGED nonOrch

\* The child ends with a non-zero exit code.
CFail(p) ==
    /\ orch[p].pc = "child"
    /\ orch[p].cpc \in {"start", "work"}
    /\ orch' = [orch EXCEPT ![p].cpc = "exit1"]
    /\ UNCHANGED <<fs, oUniverse, oShardTotal, oBatchSize, oMaxBatches, oEdits, oClock>>
    /\ UNCHANGED nonOrch

\* A wrong variant of the definition below: the child's exit code ignored.
AfterChildAnyRc(rc) == "loop"

\* run_one_batch(), lines 203-207: rc = p.wait(); a non-zero rc raises
\* RuntimeError, which main() does not catch (try/finally, lines 303-350).
AfterChild(rc) == IF rc # 0 THEN "failed" ELSE "loop"

\* run_one_batch(), lines 204-207 and main(), lines 332-347: the child's count
\* is taken from its log, done is recomputed from the file for the display.
OBatchReturn(p) ==
    /\ orch[p].pc = "child"
    /\ orch[p].cpc = "exit0"
    /\ orch' = [orch EXCEPT
                   ![p].pc = AfterChild(0),
                   ![p].cpc = "none",
                   ![p].written = orch[p].cwritten,
                   ![p].done = DoneCount(orch[p].eligible_ids,
                                         read_done_company_ids(fs["web"]))]
    /\ UNCHANGED <<fs, oUniverse, oShardTotal, oBatchSize, oMaxBatches, oEdits, oClock>>
    /\ UNCHANGED nonOrch

\* run_one_batch(), lines 204-206: a non-zero exit code raises RuntimeError,
\* which leaves main().
OBatchFailed(p) ==
    /\ orch[p].pc = "child"
    /\ orch[p].cpc = "exit1"
    /\ orch' = [orch EXCEPT ![p].pc = AfterChild(1), ![p].cpc = "none"]
    /\ UNCHANGED <<fs, oUniverse, oShardTotal, oBatchSize, oMaxBatches, oEdits, oClock>>
    /\ UNCHANGED nonOrch

DropLine(ls, k) == SubSeq(ls, 1, k - 1) \o SubSeq(ls, k + 1, Len(ls))

\* Somebody else removes a line of the ledger while no batch is running.
OExternalEdit ==
    /\ oEdits < MaxEdits
    /\ \E p \in Procs : orch[p].pc # "off"
    /\ \A p \in Procs : orch[p].pc # "child"
    /\ fs["web"].exists
    /\ \E k \in 1..Len(fs["web"].lines) :
          fs' = [fs EXCEPT !["web"].lines = DropLine(@, k)]
    /\ oEdits' = oEdits + 1
    /\ UNCHANGED <<oUniverse, oShardTotal, oBatchSize, oMaxBatches, oClock, orch>>
    /\ UNCHANGED nonOrch

\* Time passes: the --max-runtime-minutes given on the command line, counted
\* from the start of the run, has elapsed.  main() forwards the option to
\* every batch child (line 295) and never reads a clock itself.
OTick ==
    /\ oClock = "running"
    /\ \E p \in Procs : orch[p].pc \in {"init", "loop", "child"}
    /\ oClock' = "elapsed"
    /\ UNCHANGED <<fs, oUniverse, oShardTotal, oBatchSize, oMaxBatches, oEdits, orch>>
    /\ UNCHANGED nonOrch

OrchStep(p) ==
    \/ OInit(p)
    \/ OLoop(p)
    \/ CStart(p)
    \/ CUnit(p)
    \/ CExit(p)
    \/ CFail(p)
    \/ OBatchReturn(p)
    \/ OBatchFailed(p)

NextOrch ==
    \/ \E p \in Procs : OrchStep(p)
    \/ OExternalEdit

\* The ledgers a run can start from: no file, or the records of some units.
StartLedgers ==
    {NoFile} \cup {MkFile([k \in 1..Len(SortedSeq(S)) |-> Rec(SortedSeq(S)[k], "ok", FALSE)]) :
                      S \in SUBSET OrchIds}

AllowLists == {NoAllow} \cup {[given |-> TRUE, ids |-> S] : S \in SUBSET OrchIds}

(***************************************************************************)
(* Retry patcher: retry_epo_publications_errors.py                         *)
(* The input ledger is the path "ledger"; out is "patched" (the default    *)
(* <input>_patched, or another path) or "ledger" (--output names the       *)
(* input itself).                                                          *)
(***************************************************************************)
PatchIds == {"a", "b"}

NoRepl == [i \in {} |-> NoRec]

\* A wrong variant of the definition below: every record taken, failed or not.
RECURSIVE load_all_records(_)
load_all_records(ls) ==
    IF ls = <<>> THEN [raised |-> FALSE, ids |-> {}]
    ELSE LET l    == Head(ls)
             rest == load_all_records(Tail(ls))
         IN  IF l.kind = "blank" THEN rest
             ELSE IF l.kind # "rec" THEN [raised |-> TRUE, ids |-> {}]
             ELSE IF rest.raised THEN rest
             ELSE IF l.id # ""
                  THEN [raised |-> FALSE, ids |-> rest.ids \cup {l.id}]
                  ELSE rest

\* load_error_records: blank lines are skipped, json.loads raises on a line
\* that does not parse, records without the error flag are passed over.
RECURSIVE load_error_records(_)
load_error_records(ls) ==
    IF ls = <<>> THEN [raised |-> FALSE, ids |-> {}]
    ELSE LET l    == Head(ls)
             rest == load_error_records(Tail(ls))
         IN  IF l.kind = "blank" THEN rest
             ELSE IF l.kind # "rec" THEN [raised |-> TRUE, ids |-> {}]
             ELSE IF rest.raised THEN rest
             ELSE IF l.st = "error" /\ l.id # ""
                  THEN [raised |-> FALSE, ids |-> rest.ids \cup {l.id}]
                  ELSE rest

\* A wrong variant of the definition below: no line replaced.
RewriteLineNoReplace(l, replacements) ==
    IF l.kind = "blank" THEN [act |-> "skip", line |-> l]
    ELSE IF l.kind # "rec" THEN [act |-> "raise", line |-> l]
    ELSE [act |-> "write", line |-> l]

\* rewrite_with_replacements, lines 175-183, for one input line: what is
\* written for it.  "skip" writes nothing, "raise" is json.loads raising.
RewriteLine(l, replacements) ==
    IF l.kind = "blank" THEN [act |-> "skip", line |-> l]
    ELSE IF l.kind # "rec" THEN [act |-> "raise", line |-> l]
    ELSE IF l.id # "" /\ l.id \in DOMAIN replacements
         THEN [act |-> "write", line |-> replacements[l.id]]
         ELSE [act |-> "write", line |-> l]

\* rewrite_with_replacements on a whole input: the lines of the output file.
RECURSIVE rewrite_with_replacements(_, _)
rewrite_with_replacements(ls, replacements) ==
    IF ls = <<>> THEN <<>>
    ELSE LET w == RewriteLine(Head(ls), replacements)
         IN  IF w.act = "raise" THEN <<>>
             ELSE (IF w.act = "write" THEN <<w.line>> ELSE <<>>)
                     \o rewrite_with_replacements(Tail(ls), replacements)

\* A wrong variant of the definition below: the output written directly, no temporary file.
TmpDirect(out) == out

\* tmp_out = out.with_suffix(out.suffix + ".tmp")
TmpOf(out) == IF out = "ledger" THEN "ledger.tmp" ELSE "patched.tmp"

tmp_out == TmpOf(pOut)

\* the path os.replace moves the temporary file to
final_path == IF pInplace THEN "ledger" ELSE pOut

POff ==
    /\ pPc = "off"
    /\ pInplace = FALSE
    /\ pOut = "patched"
    /\ pErrorIds = <<>>
    /\ pRepl = NoRepl
    /\ pPos = 0
    /\ pRenamed = FALSE
    /\ pOrig = NoFile

\* main(), lines 231-254: find the failed records; nothing to do without any.
PScan ==
    /\ pPc = "scan"
    /\ LET r == load_error_records(fs["ledger"].lines)
       IN  IF r.raised
           THEN pPc' = "crashed" /\ pErrorIds' = <<>>
           ELSE IF r.ids = {}
                THEN pPc' = "finished" /\ pErrorIds' = <<>>
                ELSE pPc' = "retry" /\ pErrorIds' = SortedSeq(r.ids)
    /\ UNCHANGED <<fs, pInplace, pOut, pRepl, pPos, pRenamed, pOrig>>
    /\ UNCHANGED nonPatch

\* main(), lines 289-337: one failed unit is fetched again; the replacement is
\* a success record or an error record, retried = true in both.
PRetry ==
    /\ pPc = "retry"
    /\ pErrorIds # <<>>
    /\ \E st \in {"ok", "error"} :
          LET i == Head(pErrorIds)
          IN  pRepl' = [j \in (DOMAIN pRepl) \cup {i} |->
                           IF j = i THEN Rec(i, st, TRUE) ELSE pRepl[j]]
    /\ pErrorIds' = Tail(pErrorIds)
    /\ pPc' = IF Tail(pErrorIds) = <<>> THEN "rewrite" ELSE "retry"
    /\ UNCHANGED <<fs, pInplace, pOut, pPos, pRenamed, pOrig>>
    /\ UNCHANGED nonPatch

\* rewrite_with_replacements, line 174: both files are opened; the temporary
\* file is created or truncated.
PRewriteOpen ==
    /\ pPc = "rewrite"
    /\ fs' = [fs EXCEPT ![tmp_out] = EmptyFile]
    /\ pPos' = 0
    /\ pPc' = "rewriting"
    /\ UNCHANGED <<pInplace, pOut, pErrorIds, pRepl, pRenamed, pOrig>>
    /\ UNCHANGED nonPatch

\* A wrong variant of the definition below: an error at a line is swallowed.
AfterLineSwallowed(act, io) == "rewriting"

\* rewrite_with_replacements has no try/except and main() calls it bare
\* (line 343): json.loads or f_out.write raising ends the run there.
AfterLine(act, io) == IF act = "raise" \/ io # "ok" THEN "raised" ELSE "rewriting"

\* rewrite_with_replacements, lines 175-183: the next input line.  The write
\* to the temporary file succeeds, or fails with an OSError after nothing or
\* a part of the line has reached the file.
PRewriteLine ==
    /\ pPc = "rewriting"
    /\ pPos < Len(fs["ledger"].lines)
    /\ LET w == RewriteLine(fs["ledger"].lines[pPos + 1], pRepl)
       IN  \E io \in {"ok", "none", "torn"} :
              /\ w.act # "write" => io = "ok"
              /\ fs' = IF w.act # "write" \/ io = "none" THEN fs
                       ELSE IF io = "ok"
                            THEN [fs EXCEPT ![tmp_out] = AppendLine(@, w.line)]
                            ELSE [fs EXCEPT ![tmp_out] = AppendPartial(@, w.line)]
              /\ pPc' = AfterLine(w.act, io)
    /\ pPos' = pPos + 1
    /\ UNCHANGED <<pInplace, pOut, pErrorIds, pRepl, pRenamed, pOrig>>
    /\ UNCHANGED nonPatch

\* A wrong variant of the definition below: no backup before os.replace.
AfterRewriteNoBackup(inplace) == "rename"

\* main(), lines 345-353: in place, shutil.copy2 comes before os.replace.
AfterRewrite(inplace) == IF inplace THEN "backup" ELSE "rename"

\* rewrite_with_replacements returns at the end of the input: both files closed.
PRewriteClose ==
    /\ pPc = "rewriting"
    /\ pPos >= Len(fs["ledger"].lines)
    /\ pPc' = AfterRewrite(pInplace)
    /\ UNCHANGED <<fs, pInplace, pOut, pErrorIds, pRepl, pPos, pRenamed, pOrig>>
    /\ UNCHANGED nonPatch

\* main(), lines 346-347: shutil.copy2 creates the backup file ...
PBackupBegin ==
    /\ pPc = "backup"
    /\ fs' = [fs EXCEPT !["backup"] = EmptyFile]
    /\ pPc' = "copying"
    /\ UNCHANGED <<pInplace, pOut, pErrorIds, pRepl, pPos, pRenamed, pOrig>>
    /\ UNCHANGED nonPatch

\* ... and fills it with the content of the input.
PBackupEnd ==
    /\ pPc = "copying"
    /\ fs' = [fs EXCEPT !["backup"] = fs["ledger"]]
    /\ pPc' = "rename"
    /\ UNCHANGED <<pInplace, pOut, pErrorIds, pRepl, pPos, pRenamed, pOrig>>
    /\ UNCHANGED nonPatch

\* main(), lines 348 and 353: os.replace(tmp_out, inp or out), in one step.
PRename ==
    /\ pPc = "rename"
    /\ fs' = IF tmp_out = final_path THEN fs
             ELSE [fs EXCEPT ![final_path] = fs[tmp_out], ![tmp_out] = NoFile]
    /\ pRenamed' = TRUE
    /\ pPc' = "verify"
    /\ UNCHANGED <<pInplace, pOut, pErrorIds, pRepl, pPos, pOrig>>
    /\ UNCHANGED nonPatch

\* main(), lines 357-366: verify_publications_file reads the final file.
PVerify ==
    /\ pPc = "verify"
    /\ pPc' = IF \E k \in 1..Len(fs[final_path].lines) :
                    fs[final_path].lines[k].kind \notin {"rec", "blank"}
              THEN "crashed" ELSE "finished"
    /\ UNCHANGED <<fs, pInplace, pOut, pErrorIds, pRepl, pPos, pRenamed, pOrig>>
    /\ UNCHANGED nonPatch

PRunning == pPc \in {"scan", "retry", "rewrite", "rewriting", "backup", "copying",
                     "rename", "verify"}

\* The process is killed.
PKill ==
    /\ PRunning
    /\ pPc' = "dead"
    /\ UNCHANGED <<fs, pInplace, pOut, pErrorIds, pRepl, pPos, pRenamed, pOrig>>
    /\ UNCHANGED nonPatch

NextPatch ==
    \/ PScan
    \/ PRetry
    \/ PRewriteOpen
    \/ PRewriteLine
    \/ PRewriteClose
    \/ PBackupBegin
    \/ PBackupEnd
    \/ PRename
    \/ PVerify
    \/ PKill

\* The lines an input ledger can hold.
LedgerLines ==
    {Rec(i, st, FALSE) : i \in PatchIds, st \in {"ok", "error"}} \cup {Blank, Junk}

RECURSIVE SeqsUpTo(_, _)
SeqsUpTo(S, n) ==
    IF n = 0 THEN {<<>>}
    ELSE LET shorter == SeqsUpTo(S, n - 1)
         IN  shorter \cup {Append(q, x) : q \in {r \in shorter : Len(r) = n - 1}, x \in S}

(***************************************************************************)
(* The fetch of one unit, page by page.                                    *)
(*   fetch_publications_for_entity  (extract_epo_publications_batch.py)    *)
(*   fetch_all_publications         (retry_epo_publications_errors.py)     *)
(* The remote side answers each page fetch as it likes: the fetch raises,  *)
(* reports a non-success result, or succeeds with a list of items and a    *)
(* continuation token.  It stops handing out tokens after a bounded number *)
(* of pages.                                                               *)
(***************************************************************************)
Tokens == {"", "t1", "t2"}

\* The n items of page pg fetched in attempt a.
PageItems(a, pg, n) == [k \in 1..n |-> a * 100 + pg * 10 + k]

\* What page.evaluate can give for page pg of attempt a.
Responses(a, pg, maxPages, maxItems, tokens) ==
    {[kind |-> "raise", pubs |-> <<>>, token |-> ""],
     [kind |-> "fail", pubs |-> <<>>, token |-> ""]}
    \cup {[kind |-> "ok", pubs |-> PageItems(a, pg, n), token |-> t] :
             n \in 0..maxItems,
             t \in IF pg < maxPages THEN tokens ELSE {""}}

NoResult == [error |-> FALSE, has_pubs |-> FALSE, pubs |-> <<>>, count |-> 0, attempt |-> 0]

FetchEvent(a, token, r) == [ev |-> "fetch", attempt |-> a, token |-> token, r |-> r]

OtherEvent(a, e) ==
    [ev |-> e, attempt |-> a, token |-> "", r |-> [kind |-> "none", pubs |-> <<>>, token |-> ""]]

NoReplacement ==
    [id |-> "", error |-> FALSE, retried |-> FALSE, has_pubs |-> FALSE, pubs |-> <<>>,
     count |-> 0, retry_attempts |-> 0]

FOff ==
    /\ fPc = "off"
    /\ fOrg = ""
    /\ fMax = 0
    /\ fAttempt = 0
    /\ fPageNo = 0
    /\ fToken = ""
    /\ fPubs = <<>>
    /\ fResult = NoResult
    /\ fRepl = NoReplacement
    /\ fLog = <<>>

\* A wrong variant of the definition below: the new page put in front.
ExtendFront(all_pubs, pubs) == pubs \o all_pubs

\* line 102: all_pubs.extend(pubs)
Extend(all_pubs, pubs) == all_pubs \o pubs

\* A wrong variant of the definition below: an empty page does not stop the loop.
LastPageByToken(token, pubs) == token = ""

\* line 105: if not token or not pubs: break
LastPage(token, pubs) == token = "" \/ pubs = <<>>

\* A wrong variant of the definition below: the pages fetched so far returned
\* as a success record.
FailureRecordPartial(org_id, all_pubs) ==
    [error |-> FALSE, has_pubs |-> TRUE, pubs |-> all_pubs, count |-> Len(all_pubs),
     attempt |-> 0]

\* lines 92-98 and 109-114: the error record; it has no "publications" key.
FailureRecord(org_id, all_pubs) ==
    [error |-> TRUE, has_pubs |-> FALSE, pubs |-> <<>>, count |-> 0, attempt |-> 0]

\* lines 118-123: the success record
SuccessRecord(org_id, all_pubs) ==
    [error |-> FALSE, has_pubs |-> TRUE, pubs |-> all_pubs, count |-> Len(all_pubs),
     attempt |-> 0]

\* A wrong variant of the definition below: the next page asked for at once.
AfterPageNoDelay(last) == IF last THEN "returned" ELSE "fetch"

\* lines 105-106 and 116: break leaves the loop before time.sleep(0.2); the
\* sleep is the last statement of a turn that goes on.
AfterPage(last) == IF last THEN "returned" ELSE "sleep"

\* fetch_publications_for_entity, lines 60-114: one turn of the loop, from the
\* request to the decision to stop, to return an error record or to go on.
FpFetch ==
    /\ fPc = "fetch"
    /\ \E r \in Responses(0, fPageNo + 1, MaxPages, MaxPageItems, Tokens) :
          /\ fLog' = Append(fLog, FetchEvent(0, fToken, r))
          /\ IF r.kind # "ok"
             THEN /\ fResult' = FailureRecord(fOrg, fPubs)
                  /\ fPc' = "returned"
                  /\ UNCHANGED <<fPubs, fToken>>
             ELSE /\ fPubs' = Extend(fPubs, r.pubs)
                  /\ fToken' = r.token
                  /\ fPc' = AfterPage(LastPage(r.token, r.pubs))
                  /\ fResult' = IF LastPage(r.token, r.pubs)
                                THEN SuccessRecord(fOrg, Extend(fPubs, r.pubs))
                                ELSE fResult
    /\ fPageNo' = fPageNo + 1
    /\ UNCHANGED <<fOrg, fMax, fAttempt, fRepl>>
    /\ UNCHANGED nonFetch

\* line 116: time.sleep(0.2) between two pages
FpSleep ==
    /\ fPc = "sleep"
    /\ fLog' = Append(fLog, OtherEvent(0, "sleep"))
    /\ fPc' = "fetch"
    /\ UNCHANGED <<fOrg, fMax, fAttempt, fPageNo, fToken, fPubs, fResult, fRepl>>
    /\ UNCHANGED nonFetch

NextPage == FpFetch \/ FpSleep

\* A wrong variant of the definition below: --max-attempts taken as given.
ClampNone(max_attempts) == max_attempts

\* main(), line 297: max_attempts=max(1, args.max_attempts)
ClampAttempts(max_attempts) == Max2(1, max_attempts)

max_attempts == ClampAttempts(fMax)

RetryTokens == {"", "t1"}

\* line 152: {"ok": True, "publications": pubs, ..., "attempt": attempt}
RetrySuccess(pubs, attempt) ==
    [error |-> FALSE, has_pubs |-> TRUE, pubs |-> pubs, count |-> Len(pubs),
     attempt |-> attempt]

\* lines 167 and 169: {"ok": False, "error": ..., "attempt": attempt}
RetryFailure(attempt) ==
    [error |-> TRUE, has_pubs |-> FALSE, pubs |-> <<>>, count |-> 0, attempt |-> attempt]

\* A wrong variant of the definition below: the failure replacement is the old
\* error record, not marked as retried.
ReplacementUnmarked(org_id, res, args_max_attempts) ==
    IF ~res.error
    THEN [id |-> org_id, error |-> FALSE, retried |-> TRUE, has_pubs |-> TRUE,
          pubs |-> res.pubs, count |-> Len(res.pubs),
          retry_attempts |-> IF res.attempt # 0 THEN res.attempt ELSE 1]
    ELSE [id |-> org_id, error |-> TRUE, retried |-> FALSE, has_pubs |-> FALSE,
          pubs |-> <<>>, count |-> 0, retry_attempts |-> 0]

\* main(), lines 303-330: the replacement record built from the result.
Replacement(org_id, res, args_max_attempts) ==
    IF ~res.error
    THEN [id |-> org_id, error |-> FALSE, retried |-> TRUE, has_pubs |-> TRUE,
          pubs |-> res.pubs, count |-> Len(res.pubs),
          retry_attempts |-> IF res.attempt # 0 THEN res.attempt ELSE 1]
    ELSE [id |-> org_id, error |-> TRUE, retried |-> TRUE, has_pubs |-> FALSE,
          pubs |-> <<>>, count |-> 0,
          retry_attempts |-> IF res.attempt # 0 THEN res.attempt ELSE args_max_attempts]

\* main(), lines 294-300, and fetch_all_publications, line 117: the call and
\* the head of the loop over the attempts; with no attempt to make the
\* function falls through to line 169.
FaCall ==
    /\ fPc = "call"
    /\ IF max_attempts >= 1
       THEN /\ fAttempt' = 1
            /\ fPc' = "afetch"
            /\ fResult' = fResult
       ELSE /\ fAttempt' = 0
            /\ fPc' = "areturned"
            /\ fResult' = RetryFailure(max_attempts)
    /\ UNCHANGED <<fOrg, fMax, fPageNo, fToken, fPubs, fRepl, fLog>>
    /\ UNCHANGED nonFetch

\* fetch_all_publications, lines 123-167: one page fetch of the attempt.  A
\* failure ends the attempt: the session is refreshed for the next attempt,
\* or the failure is returned when this was the last one.
FaFetch ==
    /\ fPc = "afetch"
    /\ \E r \in Responses(fAttempt, fPageNo + 1, MaxRetryPages, 1, RetryTokens) :
          /\ fLog' = Append(fLog, FetchEvent(fAttempt, fToken, r))
          /\ IF r.kind # "ok"
             THEN /\ UNCHANGED <<fPubs, fToken>>
                  /\ IF fAttempt < max_attempts
                     THEN fPc' = "refresh" /\ fResult' = fResult
                     ELSE fPc' = "areturned" /\ fResult' = RetryFailure(fAttempt)
             ELSE /\ fPubs' = fPubs \o r.pubs
                  /\ fToken' = r.token
                  /\ IF r.token = ""
                     THEN fPc' = "areturned" /\ fResult' = RetrySuccess(fPubs \o r.pubs, fAttempt)
                     ELSE fPc' = "asleep" /\ fResult' = fResult
    /\ fPageNo' = fPageNo + 1
    /\ UNCHANGED <<fOrg, fMax, fAttempt, fRepl>>
    /\ UNCHANGED nonFetch

\* line 150: time.sleep(sleep_pages) between two pages
FaSleep ==
    /\ fPc = "asleep"
    /\ fLog' = Append(fLog, OtherEvent(fAttempt, "sleep"))
    /\ fPc' = "afetch"
    /\ UNCHANGED <<fOrg, fMax, fAttempt, fPageNo, fToken, fPubs, fResult, fRepl>>
    /\ UNCHANGED nonFetch

\* A wrong variant of the definition below: a refresh that fails ends the call.
AfterRefreshAbort(how) == IF how = "failed" THEN "areturned" ELSE "backoff"

\* lines 157-164: reload and goto are each inside a try; with both failed the
\* except clause passes and line 164 is reached all the same.
AfterRefresh(how) == "backoff"

\* lines 157-163: page.reload; page.goto if it fails; nothing more if that
\* fails too.
FaRefresh ==
    /\ fPc = "refresh"
    /\ \E how \in {"reload", "goto", "failed"} :
          /\ fLog' = Append(fLog, OtherEvent(fAttempt, how))
          /\ fPc' = AfterRefresh(how)
    /\ UNCHANGED <<fOrg, fMax, fAttempt, fPageNo, fToken, fPubs, fResult, fRepl>>
    /\ UNCHANGED nonFetch

\* A wrong variant of the definition below: the list is kept from one attempt to the next.
AttemptPubsKept(pubs) == pubs

\* line 119, inside the loop over the attempts: pubs = []
AttemptPubs(pubs) == <<>>

\* lines 164-165 and 117-120: time.sleep(sleep_retry), then the next attempt
\* with an empty token and an empty list.
FaBackoff ==
    /\ fPc = "backoff"
    /\ fLog' = Append(fLog, OtherEvent(fAttempt, "backoff"))
    /\ fAttempt' = fAttempt + 1
    /\ fToken' = ""
    /\ fPubs' = AttemptPubs(fPubs)
    /\ fPageNo' = 0
    /\ fPc' = "afetch"
    /\ UNCHANGED <<fOrg, fMax, fResult, fRepl>>
    /\ UNCHANGED nonFetch

\* main(), lines 302-330: the replacement for this unit.
FaReplace ==
    /\ fPc = "areturned"
    /\ fRepl' = Replacement(fOrg, fResult, fMax)
    /\ fPc' = "replaced"
    /\ UNCHANGED <<fOrg, fMax, fAttempt, fPageNo, fToken, fPubs, fResult, fLog>>
    /\ UNCHANGED nonFetch

NextRetry ==
    \/ FaCall
    \/ FaFetch
    \/ FaSleep
    \/ FaRefresh
    \/ FaBackoff
    \/ FaReplace

(***************************************************************************)
(* Single-session extractor: extract_epo_publications_playwright.py.       *)
(* One run without --resume over the units, in order; fOrg is the unit     *)
(* being processed, fAttempt its position in the list.                     *)
(***************************************************************************)
\* main(), lines 156-179: one page fetch of the unit.  A response that is not
\* ok writes the error record and breaks out of the while loop; an exception
\* of page.evaluate is caught nowhere and ends the run.
SsFetch ==
    /\ fPc = "sfetch"
    /\ \E r \in Responses(fAttempt, fPageNo + 1, MaxRetryPages, 1, RetryTokens) :
          /\ fLog' = Append(fLog, FetchEvent(fAttempt, fToken, r))
          /\ IF r.kind = "raise"
             THEN /\ fPc' = "scrashed"
                  /\ UNCHANGED <<fs, fPubs, fToken>>
             ELSE IF r.kind = "fail"
             THEN /\ fs' = [fs EXCEPT !["ledger"] = AppendLine(@, Rec(fOrg, "error", FALSE))]
                  /\ fPc' = "srec"
                  /\ UNCHANGED <<fPubs, fToken>>
             ELSE /\ fPubs' = fPubs \o r.pubs
                  /\ fToken' = r.token
                  /\ fPc' = IF r.token = "" THEN "srec" ELSE "ssleep"
                  /\ fs' = fs
    /\ fPageNo' = fPageNo + 1
    /\ UNCHANGED <<fOrg, fMax, fAttempt, fResult, fRepl>>
    /\ UNCHANGED nonSingle

\* main(), line 182: time.sleep between two pages.
SsSleep ==
    /\ fPc = "ssleep"
    /\ fLog' = Append(fLog, OtherEvent(fAttempt, "sleep"))
    /\ fPc' = "sfetch"
    /\ UNCHANGED <<fs, fOrg, fMax, fAttempt, fPageNo, fToken, fPubs, fResult, fRepl>>
    /\ UNCHANGED nonSingle

\* main(), lines 184-195: after the while loop, however it was left, the
\* record {org_id, total, publications} is written; then the next unit.
SsRecord ==
    /\ fPc = "srec"
    /\ fs' = [fs EXCEPT !["ledger"] = AppendLine(@, Rec(fOrg, "ok", FALSE))]
    /\ fResult' = SuccessRecord(fOrg, fPubs)
    /\ IF fAttempt < MaxUnits
       THEN /\ fAttempt' = fAttempt + 1
            /\ fOrg' = IdOrder[fAttempt + 1]
            /\ fPc' = "sfetch"
       ELSE /\ UNCHANGED <<fAttempt, fOrg>>
            /\ fPc' = "sdone"
    /\ fPubs' = <<>>
    /\ fToken' = ""
    /\ fPageNo' = 0
    /\ UNCHANGED <<fMax, fRepl, fLog>>
    /\ UNCHANGED nonSingle

NextSingle == SsFetch \/ SsSleep \/ SsRecord

(***************************************************************************)
(* Catalog extractor: extract_epo_playwright.py (extract_epo_cloudscraper  *)
(* has the same loop and the same save).  fPubs is all_entities, "catalog" *)
(* the snapshot file epo_deeptech_complete_{date}.json, fResult the        *)
(* object dumped into it.                                                  *)
(***************************************************************************)
\* extract_all_entities, lines 79-118: one page fetch.  A result that is not
\* ok, an empty page and an empty token all leave the loop by break, and the
\* function returns all_entities as it stands; an exception of page.evaluate
\* goes to the except clause of main, which raises it again.
CtFetch ==
    /\ fPc = "cfetch"
    /\ \E r \in Responses(0, fPageNo + 1, MaxPages, MaxPageItems, Tokens) :
          /\ fLog' = Append(fLog, FetchEvent(0, fToken, r))
          /\ IF r.kind = "raise"
             THEN /\ fPc' = "cfailed"
                  /\ UNCHANGED <<fPubs, fToken>>
             ELSE IF r.kind = "fail" \/ r.pubs = <<>>
             THEN /\ fPc' = "csave"
                  /\ UNCHANGED <<fPubs, fToken>>
             ELSE /\ fPubs' = fPubs \o r.pubs
                  /\ fToken' = r.token
                  /\ fPc' = IF r.token = "" THEN "csave" ELSE "cdelay"
    /\ fPageNo' = fPageNo + 1
    /\ UNCHANGED <<fs, fOrg, fMax, fAttempt, fResult, fRepl>>
    /\ UNCHANGED nonSingle

\* extract_all_entities, line 121: human_delay between two pages.
CtDelay ==
    /\ fPc = "cdelay"
    /\ fLog' = Append(fLog, OtherEvent(0, "sleep"))
    /\ fPc' = "cfetch"
    /\ UNCHANGED <<fs, fOrg, fMax, fAttempt, fPageNo, fToken, fPubs, fResult, fRepl>>
    /\ UNCHANGED nonSingle

\* main(), lines 240-264: nothing is written when all_entities is empty;
\* otherwise {total, entities} is dumped into the snapshot file.
CtSave ==
    /\ fPc = "csave"
    /\ IF fPubs = <<>>
       THEN UNCHANGED <<fs, fResult>>
       ELSE /\ fs' = [fs EXCEPT !["catalog"] = EmptyFile]
            /\ fResult' = [NoResult EXCEPT !.has_pubs = TRUE, !.pubs = fPubs,
                                           !.count = Len(fPubs)]
    /\ fPc' = "cdone"
    /\ UNCHANGED <<fOrg, fMax, fAttempt, fPageNo, fToken, fPubs, fRepl, fLog>>
    /\ UNCHANGED nonSingle

NextCatalog == CtFetch \/ CtDelay \/ CtSave

(***************************************************************************)
(* Batch extractor: extract_epo_publications_batch.py                      *)
(***************************************************************************)
\* A wrong variant of the definition below: error records not counted as done.
RECURSIVE LoadDoneOkLines(_)
LoadDoneOkLines(ls) ==
    IF ls = <<>> THEN {}
    ELSE LET l == Head(ls)
         IN  (IF l.kind = "rec" /\ l.id # "" /\ l.st = "ok" THEN {l.id} ELSE {})
                 \cup LoadDoneOkLines(Tail(ls))

\* load_done_ids: lines that do not parse are skipped; a record counts whatever
\* its status.
RECURSIVE LoadDoneLines(_)
LoadDoneLines(ls) ==
    IF ls = <<>> THEN {}
    ELSE LET l == Head(ls)
         IN  (IF l.kind = "rec" /\ l.id # "" THEN {l.id} ELSE {}) \cup LoadDoneLines(Tail(ls))

LoadDoneIds(f) == IF f.exists THEN LoadDoneLines(f.lines) ELSE {}

\* A wrong variant of the definition below: the done set ignored.
RemainingAll(universe, done) == universe

\* remaining = [e for e in all_entities if id not in done_ids]
Remaining(universe, done) == SelectSeq(universe, LAMBDA i : i \notin done)

\* batches = [remaining[i:i+batch_size] for i in range(0, len(remaining), batch_size)]
NumBatches(rem, bs) == (Len(rem) + bs - 1) \div bs

\* A wrong variant of the definition below: every slice runs one unit into the next.
BatchOneMore(rem, bs, k) == SubSeq(rem, (k - 1) * bs + 1, Min2(k * bs + 1, Len(rem)))

Batch(rem, bs, k) == SubSeq(rem, (k - 1) * bs + 1, Min2(k * bs, Len(rem)))

bBatch == Batch(bRemaining, bBatchSize, bBatchNum)

BInitVars ==
    /\ bRuns = 1
    /\ bDone = {}
    /\ bRemaining = <<>>
    /\ bBatchNum = 0
    /\ bPos = 0
    /\ bSession = "none"
    /\ bNavOk = FALSE
    /\ bCur = NoRec
    /\ bDisk = "none"
    /\ bSuccess = 0
    /\ bFetched = {}
    /\ bSessions = 0
    /\ bWrote = FALSE
    /\ bComplete = FALSE
    /\ bAppended = <<>>

InitBatch ==
    /\ fs = [p \in Paths |-> NoFile]
    /\ bPc = "start"
    /\ bUniverse \in {SortedSeq(S) : S \in SUBSET UnitIds}
    /\ bBatchSize \in 1..MaxBatchSize
    /\ BInitVars
    /\ ShOff
    /\ SOff
    /\ OOff
    /\ POff
    /\ FOff

\* main(), lines 199-224: scan the ledger, compute remaining, split into batches.
BStart ==
    /\ bPc = "start"
    /\ LET done == LoadDoneIds(fs["ledger"])
           rem  == Remaining(bUniverse, done)
       IN  /\ bDone' = done
           /\ bRemaining' = rem
           /\ bComplete' = (SeqRange(bUniverse) \subseteq RecordIds(fs["ledger"]))
           /\ IF rem = <<>>
              THEN bPc' = "finished" /\ bBatchNum' = 0
              ELSE bPc' = "launch" /\ bBatchNum' = 1
    /\ UNCHANGED <<fs, bUniverse, bBatchSize, bRuns, bPos, bSession, bNavOk, bCur, bDisk,
                   bSuccess, bFetched, bSessions, bWrote, bAppended>>
    /\ UNCHANGED nonBatch

\* extract_batch(), lines 132-143: a fresh browser; a failed launch raises.
BLaunch ==
    /\ bPc = "launch"
    /\ \/ /\ bSession' = "open"
          /\ bSessions' = bSessions + 1
          /\ bPc' = "goto"
       \/ /\ bPc' = "crashed"
          /\ UNCHANGED <<bSession, bSessions>>
    /\ UNCHANGED <<fs, bUniverse, bBatchSize, bRuns, bDone, bRemaining, bBatchNum, bPos,
                   bNavOk, bCur, bDisk, bSuccess, bFetched, bWrote, bComplete, bAppended>>
    /\ UNCHANGED nonBatch

\* extract_batch(), lines 148-155: the navigation; its failure is swallowed.
BGoto ==
    /\ bPc = "goto"
    /\ bNavOk' \in BOOLEAN
    /\ bPc' = "open"
    /\ UNCHANGED <<fs, bUniverse, bBatchSize, bRuns, bDone, bRemaining, bBatchNum, bPos,
                   bSession, bCur, bDisk, bSuccess, bFetched, bSessions, bWrote, bComplete,
                   bAppended>>
    /\ UNCHANGED nonBatch

\* extract_batch(), lines 159-162: open the ledger for append (or create it).
BOpen ==
    /\ bPc = "open"
    /\ fs' = [fs EXCEPT !["ledger"] = IF @.exists THEN @ ELSE EmptyFile]
    /\ bSuccess' = 0
    /\ bPos' = 1
    /\ bPc' = "fetch"
    /\ UNCHANGED <<bUniverse, bBatchSize, bRuns, bDone, bRemaining, bBatchNum, bSession,
                   bNavOk, bCur, bDisk, bFetched, bSessions, bWrote, bComplete, bAppended>>
    /\ UNCHANGED nonBatch

\* extract_batch(), lines 164-170: fetch_publications_for_entity returns a
\* success record or an error record.
BFetch ==
    /\ bPc = "fetch"
    /\ \E st \in {"ok", "error"} : bCur' = Rec(bBatch[bPos], st, FALSE)
    /\ bFetched' = bFetched \cup {bBatch[bPos]}
    /\ bPc' = "write"
    /\ UNCHANGED <<fs, bUniverse, bBatchSize, bRuns, bDone, bRemaining, bBatchNum, bPos,
                   bSession, bNavOk, bDisk, bSuccess, bSessions, bWrote, bComplete, bAppended>>
    /\ UNCHANGED nonBatch

\* extract_batch(), line 172: f.write hands the line to the buffered writer.
\* The line reaches the file through the write calls issued by f.write (a line
\* larger than the buffer) and by f.flush; before f.flush has returned the
\* file holds none of the line or a prefix of it.
BWrite ==
    /\ bPc = "write"
    /\ \E how \in {"none", "torn"} :
          /\ bDisk' = how
          /\ fs' = IF how = "none" THEN fs
                   ELSE [fs EXCEPT !["ledger"] = AppendPartial(@, bCur)]
    /\ bWrote' = TRUE
    /\ bPc' = "flush"
    /\ UNCHANGED <<bUniverse, bBatchSize, bRuns, bDone, bRemaining, bBatchNum, bPos,
                   bSession, bNavOk, bCur, bSuccess, bFetched, bSessions, bComplete, bAppended>>
    /\ UNCHANGED nonBatch

\* A wrong variant of the definition below: every record counted as a success.
SuccessCountAll(success_count, result) == success_count + 1

\* lines 175-176: if not result.get("error"): success_count += 1
SuccessCount(success_count, result) ==
    IF result.st = "ok" THEN success_count + 1 ELSE success_count

\* extract_batch(), lines 173-181: f.flush, the success count, the next entity.
BFlush ==
    /\ bPc = "flush"
    /\ fs' = [fs EXCEPT !["ledger"] =
                IF bDisk = "none" THEN AppendLine(@, bCur) ELSE CompletePartial(@, bCur)]
    /\ bDisk' = "none"
    /\ bAppended' = Append(bAppended, bCur)
    /\ bSuccess' = SuccessCount(bSuccess, bCur)
    /\ IF bPos < Len(bBatch)
       THEN bPos' = bPos + 1 /\ bPc' = "fetch"
       ELSE bPos' = bPos /\ bPc' = "close"
    /\ UNCHANGED <<bUniverse, bBatchSize, bRuns, bDone, bRemaining, bBatchNum, bSession,
                   bNavOk, bCur, bFetched, bSessions, bWrote, bComplete>>
    /\ UNCHANGED nonBatch

\* extract_batch(), lines 183-185 and main(), lines 227-234: close the browser,
\* return, go on with the next batch.
BClose ==
    /\ bPc = "close"
    /\ bSession' = "none"
    /\ IF bBatchNum < NumBatches(bRemaining, bBatchSize)
       THEN bBatchNum' = bBatchNum + 1 /\ bPc' = "launch"
       ELSE bBatchNum' = bBatchNum /\ bPc' = "finished"
    /\ UNCHANGED <<fs, bUniverse, bBatchSize, bRuns, bDone, bRemaining, bPos, bNavOk, bCur,
                   bDisk, bSuccess, bFetched, bSessions, bWrote, bComplete, bAppended>>
    /\ UNCHANGED nonBatch

\* A wrong variant of the definition below: the browser launched outside of any with block.
WithExitLeak(session) == session

\* extract_batch(), line 132: the body runs inside "with sync_playwright() as p";
\* leaving the block, by return or by an exception, stops Playwright, and the
\* browser it launched goes with it.
WithExit(session) == "none"

\* extract_batch(), lines 160-181: an exception leaves the function: open()
\* fails, f.write or f.flush fails, or the user interrupts the run while a
\* unit is processed (fetch_publications_for_entity catches Exception only).
\* The with block of line 162 closes the file, which writes out what the
\* buffer still holds unless that fails too; browser.close() of line 183 is
\* skipped; the with block of line 132 is left; main() does not catch.
BRaise ==
    /\ bPc \in {"open", "fetch", "write", "flush"}
    /\ \E io \in {"written", "lost"} :
          /\ bPc # "flush" => io = "lost"
          /\ IF io = "written"
             THEN /\ fs' = [fs EXCEPT !["ledger"] =
                              IF bDisk = "none" THEN AppendLine(@, bCur)
                              ELSE CompletePartial(@, bCur)]
                  /\ bAppended' = Append(bAppended, bCur)
             ELSE UNCHANGED <<fs, bAppended>>
    /\ bDisk' = "none"
    /\ bSession' = WithExit(bSession)
    /\ bPc' = "crashed"
    /\ UNCHANGED <<bUniverse, bBatchSize, bRuns, bDone, bRemaining, bBatchNum, bPos,
                   bNavOk, bCur, bSuccess, bFetched, bSessions, bWrote, bComplete>>
    /\ UNCHANGED nonBatch

BRunning == bPc \in {"start", "launch", "goto", "open", "fetch", "write", "flush", "close"}

\* The process is killed: what is in the writer's buffer is lost, the file
\* keeps what had reached it.
BKill ==
    /\ BRunning
    /\ bPc' = "dead"
    /\ bSession' = "none"
    /\ UNCHANGED <<fs, bUniverse, bBatchSize, bRuns, bDone, bRemaining, bBatchNum, bPos,
                   bNavOk, bCur, bDisk, bSuccess, bFetched, bSessions, bWrote, bComplete,
                   bAppended>>
    /\ UNCHANGED nonBatch

\* The program is started again on the same universe and ledger.
BRestart ==
    /\ bPc \in {"finished", "dead", "crashed"}
    /\ bRuns < MaxRuns
    /\ bRuns' = bRuns + 1
    /\ bPc' = "start"
    /\ bDone' = {}
    /\ bRemaining' = <<>>
    /\ bBatchNum' = 0
    /\ bPos' = 0
    /\ bSession' = "none"
    /\ bNavOk' = FALSE
    /\ bCur' = NoRec
    /\ bDisk' = "none"
    /\ bSuccess' = 0
    /\ bFetched' = {}
    /\ bSessions' = 0
    /\ bWrote' = FALSE
    /\ bComplete' = FALSE
    /\ UNCHANGED <<fs, bUniverse, bBatchSize, bAppended>>
    /\ UNCHANGED nonBatch

BOff ==
    /\ bPc = "off"
    /\ bUniverse = <<>>
    /\ bBatchSize = 1
    /\ BInitVars

NextBatch ==
    \/ BStart
    \/ BLaunch
    \/ BGoto
    \/ BOpen
    \/ BFetch
    \/ BWrite
    \/ BFlush
    \/ BClose
    \/ BRaise
    \/ BKill
    \/ BRestart

SpecBatch == InitBatch /\ [][NextBatch]_vars

\* C1 (crash safety of the batch extractor): once the process has been killed,
\* the ledger holds exactly the records whose append (write + flush) completed
\* before the kill, each as a line of its own; the done-set scan of the restart
\* returns exactly the ids of those records; and a run fetches only units of the
\* universe whose id is not in the done set it scanned.
C1_CrashSafety ==
    /\ bPc = "dead" =>
          /\ RecordLines(fs["ledger"]) = bAppended
          /\ LoadDoneIds(fs["ledger"]) = {bAppended[k].id : k \in 1..Len(bAppended)}
    /\ bFetched \subseteq (SeqRange(bUniverse) \ bDone)

(***************************************************************************)
(* The work partitioner alone: every universe, every shard_total, every    *)
(* shard index.                                                            *)
(***************************************************************************)
InitShard ==
    /\ fs = [p \in Paths |-> NoFile]
    /\ BOff
    /\ SOff
    /\ OOff
    /\ POff
    /\ FOff
    /\ shUniverse \in SUBSET Ids
    /\ shTotal \in 0..MaxShards
    /\ shSel = [i \in (ShardIndexes \cup {-1, MaxShards}) |-> Unset]

NextShard == \E i \in DOMAIN shSel : ShSelect(i)

SpecShard == InitShard /\ [][NextShard]_vars

(***************************************************************************)
(* One orchestrator run, every argument.                                   *)
(***************************************************************************)
InitOrch ==
    /\ fs \in {[p \in Paths |-> IF p = "web" THEN f ELSE NoFile] : f \in StartLedgers}
    /\ BOff
    /\ SOff
    /\ ShOff
    /\ POff
    /\ FOff
    /\ oUniverse = OrchIds
    /\ oShardTotal \in 0..2
    /\ oBatchSize \in 1..MaxBatchSize
    /\ oMaxBatches \in 0..MaxBatches
    /\ oEdits = 0
    /\ oClock = "none"
    /\ \E idx \in 0..2, al \in AllowLists :
          orch = [p \in Procs |-> IF p = 1 THEN ProcInit(idx, al) ELSE ProcOff]

SpecOrch == InitOrch /\ [][NextOrch]_vars

(***************************************************************************)
(* One retry patcher run, every input ledger, every argument.              *)
(***************************************************************************)
InitPatch ==
    /\ fs \in {[p \in Paths |-> IF p = "ledger" THEN MkFile(ls) ELSE NoFile] :
                  ls \in SeqsUpTo(LedgerLines, MaxLedger)}
    /\ BOff
    /\ SOff
    /\ ShOff
    /\ OOff
    /\ FOff
    /\ pPc = "scan"
    /\ pInplace \in BOOLEAN
    /\ pOut \in {"patched", "ledger"}
    /\ pErrorIds = <<>>
    /\ pRepl = NoRepl
    /\ pPos = 0
    /\ pRenamed = FALSE
    /\ pOrig = fs["ledger"]

SpecPatch == InitPatch /\ [][NextPatch]_vars

\* C2 (patch atomicity): at every point of the patcher's run, a kill included,
\* the file at the ledger path is the complete original ledger until os.replace
\* has moved the temporary file onto it, and the complete patched ledger from
\* then on; it is never a partially written file.
C2_PatchAtomicity ==
    pPc # "off" =>
        fs["ledger"] = IF pRenamed /\ final_path = "ledger"
                       THEN MkFile(rewrite_with_replacements(pOrig.lines, pRepl))
                       ELSE pOrig

C2_Witness ==
    /\ pPc = "dead"
    /\ pRenamed
    /\ pInplace
    /\ fs["ledger"] # pOrig
    /\ Len(pOrig.lines) = MaxLedger

\* The rewrite has run to its end and the temporary file is still in place.
Rewritten == pPc \in {"backup", "copying", "rename"}

\* C3 as claimed (rewrite contract): the output has one line per line of the
\* input, in the same order: the replacement where the input line's id is in
\* the replacement set, the input line otherwise.
C3_OneLinePerInputLine ==
    Rewritten =>
        LET inl == pOrig.lines
            out == fs[tmp_out].lines
        IN  /\ Len(out) = Len(inl)
            /\ \A k \in 1..Len(inl) :
                  out[k] = IF inl[k].id \in DOMAIN pRepl THEN pRepl[inl[k].id] ELSE inl[k]

\* C3 as amended: blank lines of the input are dropped; the output has one
\* line per non-blank line of the input, in the same order: the replacement
\* where the line's id is in the replacement set, the input line otherwise.
C3_OneLinePerNonBlankLine ==
    Rewritten =>
        LET inl == SelectSeq(pOrig.lines, LAMBDA l : l.kind # "blank")
            out == fs[tmp_out].lines
        IN  /\ Len(out) = Len(inl)
            /\ fs[tmp_out].eol
            /\ \A k \in 1..Len(inl) :
                  out[k] = IF inl[k].id \in DOMAIN pRepl THEN pRepl[inl[k].id] ELSE inl[k]

C3_Witness ==
    /\ Rewritten
    /\ Len(pOrig.lines) = 3
    /\ pOrig.lines[1] = Rec("a", "ok", FALSE)
    /\ pOrig.lines[2] = Rec("b", "error", FALSE)
    /\ pOrig.lines[3] = Blank
    /\ fs[tmp_out].lines = <<Rec("a", "ok", FALSE), Rec("b", "ok", TRUE)>>

(***************************************************************************)
(* Two orchestrator runs side by side on one universe and one ledger.      *)
(***************************************************************************)
InitPar ==
    /\ fs = [p \in Paths |-> NoFile]
    /\ BOff
    /\ SOff
    /\ ShOff
    /\ POff
    /\ FOff
    /\ oUniverse = OrchIds
    /\ oShardTotal \in 1..2
    /\ oBatchSize \in 1..MaxBatchSize
    /\ oMaxBatches = 0
    /\ oEdits = MaxEdits
    /\ oClock = "none"
    /\ \E i1 \in 0..1, i2 \in 0..1 :
          orch = [p \in Procs |-> ProcInit(IF p = 1 THEN i1 ELSE i2, NoAllow)]

NextPar == \E p \in Procs : OrchStep(p)

SpecPar == InitPar /\ [][NextPar]_vars

(***************************************************************************)
(* One orchestrator run whose process and child keep running: every step   *)
(* of the run that is enabled is eventually taken.  The child's exit with  *)
(* a failure and the changes made by others are possible, never owed.      *)
(***************************************************************************)
Progress(p) ==
    \/ OInit(p)
    \/ OLoop(p)
    \/ CStart(p)
    \/ CUnit(p)
    \/ CExit(p)
    \/ OBatchReturn(p)
    \/ OBatchFailed(p)

InitLive ==
    /\ fs \in {[p \in Paths |-> IF p = "web" THEN l ELSE NoFile] : l \in StartLedgers}
    /\ BOff
    /\ SOff
    /\ ShOff
    /\ POff
    /\ FOff
    /\ oUniverse = OrchIds
    /\ oShardTotal \in 0..2
    /\ oBatchSize \in 1..MaxBatchSize
    /\ oMaxBatches = 0
    /\ oEdits = MaxEdits
    /\ oClock = "none"
    /\ \E idx \in 0..2, al \in AllowLists :
          orch = [p \in Procs |-> IF p = 1 THEN ProcInit(idx, al) ELSE ProcOff]

NextLive == OrchStep(1)

LiveOrch == InitLive /\ [][NextLive]_vars /\ WF_vars(Progress(1))

(***************************************************************************)
(* One orchestrator run started with --max-runtime-minutes > 0.            *)
(***************************************************************************)
InitBox ==
    /\ fs \in {[p \in Paths |-> IF p = "web" THEN l ELSE NoFile] : l \in StartLedgers}
    /\ BOff
    /\ SOff
    /\ ShOff
    /\ POff
    /\ FOff
    /\ oUniverse = OrchIds
    /\ oShardTotal \in 0..2
    /\ oBatchSize \in 1..MaxBatchSize
    /\ oMaxBatches = 0
    /\ oEdits = MaxEdits
    /\ oClock = "running"
    /\ \E idx \in 0..2, al \in AllowLists :
          orch = [p \in Procs |-> IF p = 1 THEN ProcInit(idx, al) ELSE ProcOff]

NextBox == OrchStep(1) \/ OTick

SpecBox == InitBox /\ [][NextBox]_vars

(***************************************************************************)
(* One call of fetch_publications_for_entity, for every unit and every     *)
(* behaviour of the remote side.                                           *)
(***************************************************************************)
InitPage ==
    /\ fs = [p \in Paths |-> NoFile]
    /\ BOff
    /\ SOff
    /\ ShOff
    /\ OOff
    /\ POff
    /\ fPc = "fetch"
    /\ fOrg \in UnitIds
    /\ fMax = 0
    /\ fAttempt = 0
    /\ fPageNo = 0
    /\ fToken = ""
    /\ fPubs = <<>>
    /\ fResult = NoResult
    /\ fRepl = NoReplacement
    /\ fLog = <<>>

SpecPage == InitPage /\ [][NextPage]_vars

(***************************************************************************)
(* The retry of one failed unit: the call of fetch_all_publications by     *)
(* main() and the replacement built from its result, for every             *)
(* --max-attempts and every behaviour of the remote side.                  *)
(***************************************************************************)
InitRetry ==
    /\ fs = [p \in Paths |-> NoFile]
    /\ BOff
    /\ SOff
    /\ ShOff
    /\ OOff
    /\ POff
    /\ fPc = "call"
    /\ fOrg \in PatchIds
    /\ fMax \in -1..MaxAttempts
    /\ fAttempt = 0
    /\ fPageNo = 0
    /\ fToken = ""
    /\ fPubs = <<>>
    /\ fResult = NoResult
    /\ fRepl = NoReplacement
    /\ fLog = <<>>

SpecRetry == InitRetry /\ [][NextRetry]_vars

(***************************************************************************)
(* The done-set scans, each applied to every ledger of a few lines: the    *)
(* file missing, empty, or holding records, blank lines, lines that do not *)
(* parse and lines that parse to something else than an object, with or    *)
(* without a partial line at its end.                                      *)
(***************************************************************************)
ScanLines ==
    {Rec(i, st, FALSE) : i \in PatchIds, st \in {"ok", "error"}}
        \cup {Blank, Junk, NonObject}

ScanFiles ==
    {NoFile}
        \cup {MkFile(ls) : ls \in SeqsUpTo(ScanLines, MaxLedger)}
        \cup {AppendPartial(MkFile(ls), NoRec) : ls \in SeqsUpTo(ScanLines, MaxLedger - 1)}

InitScan ==
    /\ fs \in {[p \in Paths |-> IF p = "ledger" THEN f ELSE NoFile] : f \in ScanFiles}
    /\ BOff
    /\ ShOff
    /\ OOff
    /\ POff
    /\ FOff
    /\ scanPc = "ready"
    /\ scanBy = "none"
    /\ scanIds = {}

\* load_done_ids(output_path) of the batch extractor.
SLoadDone ==
    /\ scanPc = "ready"
    /\ scanBy' = "load_done_ids"
    /\ scanIds' = LoadDoneIds(fs["ledger"])
    /\ scanPc' = "done"
    /\ UNCHANGED nonScan

\* read_done_company_ids(out_path) of the orchestrator.
SReadDone ==
    /\ scanPc = "ready"
    /\ scanBy' = "read_done_company_ids"
    /\ IF ReadDoneRaises(fs["ledger"])
       THEN scanPc' = "raised" /\ scanIds' = {}
       ELSE scanPc' = "done" /\ scanIds' = read_done_company_ids(fs["ledger"])
    /\ UNCHANGED nonScan

NextScan == SLoadDone \/ SReadDone

SpecScan == InitScan /\ [][NextScan]_vars

(***************************************************************************)
(* One run of the single-session extractor on a new output file.           *)
(***************************************************************************)
InitSingle ==
    /\ fs = [p \in Paths |-> IF p = "ledger" THEN EmptyFile ELSE NoFile]
    /\ BOff
    /\ SOff
    /\ ShOff
    /\ OOff
    /\ POff
    /\ fPc = "sfetch"
    /\ fOrg = IdOrder[1]
    /\ fMax = 0
    /\ fAttempt = 1
    /\ fPageNo = 0
    /\ fToken = ""
    /\ fPubs = <<>>
    /\ fResult = NoResult
    /\ fRepl = NoReplacement
    /\ fLog = <<>>

SpecSingle == InitSingle /\ [][NextSingle]_vars

InitCatalog ==
    /\ fs = [p \in Paths |-> NoFile]
    /\ BOff
    /\ SOff
    /\ ShOff
    /\ OOff
    /\ POff
    /\ fPc = "cfetch"
    /\ fOrg = ""
    /\ fMax = 0
    /\ fAttempt = 0
    /\ fPageNo = 0
    /\ fToken = ""
    /\ fPubs = <<>>
    /\ fResult = NoResult
    /\ fRepl = NoReplacement
    /\ fLog = <<>>

SpecCatalog == InitCatalog /\ [][NextCatalog]_vars

(***************************************************************************)
(* The retry patcher, in place, while a batch extractor is appending to    *)
(* the same ledger: neither program takes a lock or looks for the other.   *)
(***************************************************************************)
\* extract_batch(), lines 172-173, in another process: the record of a unit
\* that had none is written and flushed, at some moment between the patcher's
\* scan and its rename.
XAppend ==
    /\ pPc \in {"retry", "rewrite", "rewriting", "backup", "copying", "rename"}
    /\ Len(bAppended) < MaxConcurrent
    /\ \E st \in {"ok", "error"} :
          /\ fs' = [fs EXCEPT !["ledger"] = AppendLine(@, Rec("c", st, FALSE))]
          /\ bAppended' = Append(bAppended, Rec("c", st, FALSE))
    /\ UNCHANGED <<bPc, bUniverse, bBatchSize, bRuns, bDone, bRemaining, bBatchNum, bPos,
                   bSession, bNavOk, bCur, bDisk, bSuccess, bFetched, bSessions, bWrote,
                   bComplete>>
    /\ UNCHANGED <<shardVars, orchVars, patchVars, fetchVars, scanVars>>

InitConc == InitPatch /\ pInplace

NextConc == NextPatch \/ XAppend

SpecConc == InitConc /\ [][NextConc]_vars

(***************************************************************************)
(* Every program, one run of one of them at a time.                        *)
(***************************************************************************)
Init ==
    InitBatch \/ InitOrch \/ InitPatch \/ InitShard \/ InitPage \/ InitRetry \/ InitScan

Next ==
    NextBatch \/ NextOrch \/ NextPatch \/ NextShard \/ NextPage \/ NextRetry \/ NextScan

Spec == Init /\ [][Next]_vars

\* C4 (resume idempotence): a run that starts on a ledger holding a record for
\* every unit of its universe launches no batch, opens no session, fetches
\* nothing and leaves the ledger as it is (batch extractor and orchestrator).
C4_ResumeIdempotent ==
    [][ /\ bComplete' => (bPc' = "finished" /\ bFetched' = {} /\ bSessions' = 0)
        /\ bComplete => fs' = fs
        /\ \A p \in Procs :
              (orch'[p].complete /\ oEdits' = 0) =>
                  /\ orch'[p].launched = 0
                  /\ orch'[p].fetched = {}
                  /\ orch'[p].pc \in {"loop", "done"}
                  /\ (orch[p].complete => fs' = fs) ]_vars

C4_Witness ==
    /\ bRuns = 2
    /\ bComplete
    /\ bPc = "finished"
    /\ Len(bUniverse) = MaxUnits
    /\ Len(fs["ledger"].lines) >= MaxUnits

\* The units of the universe that the hash assigns to the shard of process p.
ShardSet(p) ==
    {i \in oUniverse :
        ModDigits(Sha256Digits(i), IF oShardTotal < 1 THEN 1 ELSE oShardTotal, 0)
            = orch[p].shard_index}

\* ... of which those of the allow-list, when one is given.
EligibleSet(p) ==
    IF orch[p].allow.given THEN ShardSet(p) \cap orch[p].allow.ids ELSE ShardSet(p)

\* C7 (parallel shards never double-process): two orchestrator processes on the
\* same universe and shard_total with different shard indexes never fetch the
\* same unit, in any interleaving: their eligible sets are disjoint and each
\* fetches units of its own shard only.
C7_NoDoubleProcessing ==
    orch[1].shard_index # orch[2].shard_index =>
        /\ orch[1].eligible_ids \cap orch[2].eligible_ids = {}
        /\ orch[1].fetched \cap orch[2].fetched = {}
        /\ \A p \in Procs : orch[p].fetched \subseteq ShardSet(p)

C7_Witness ==
    /\ orch[1].shard_index # orch[2].shard_index
    /\ orch[1].fetched # {}
    /\ orch[2].fetched # {}
    /\ orch[1].pc = "child"
    /\ orch[2].pc = "child"

\* C8 (remaining work at Init): what the orchestrator takes as remaining when it
\* starts is the number of units of the selected shard (of the allow-list too,
\* when one is given) that have no record in the ledger; records of other
\* units do not count.
C8_RemainingAtInit ==
    [][ \A p \in Procs :
           (orch[p].pc = "init" /\ orch'[p].pc = "loop") =>
               /\ orch'[p].eligible_ids = EligibleSet(p)
               /\ orch'[p].total - orch'[p].done
                     = Cardinality(EligibleSet(p) \ RecordIds(fs["web"])) ]_vars

C8_Witness ==
    /\ orch[1].pc = "loop"
    /\ orch[1].launched = 0
    /\ oEdits = 0
    /\ orch[1].allow.given
    /\ oShardTotal = 2
    /\ orch[1].total = 2
    /\ orch[1].done = 1
    /\ Cardinality(RecordIds(fs["web"])) = 2

\* C9 (ledger re-scan as ground truth): every decision of the loop, stop or
\* launch the next batch, is taken on remaining as recomputed from the ledger
\* file as it is at that moment, and a batch is launched only by such a
\* decision; the count reported by the child plays no part.
C9_RescanDecides ==
    [][ \A p \in Procs :
           /\ (orch[p].pc = "loop" /\ orch'[p].pc # "loop") =>
                 LET truth == Cardinality(orch[p].eligible_ids \ RecordIds(fs["web"]))
                 IN  /\ orch'[p].remaining = truth
                     /\ orch'[p].pc = "done" <=> truth = 0
           /\ (orch[p].pc # "child" /\ orch'[p].pc = "child") => orch[p].pc = "loop" ]_vars

C9_Witness ==
    /\ oEdits = 1
    /\ orch[1].pc = "child"
    /\ orch[1].launched = 2
    /\ orch[1].total = 3
    /\ Cardinality(orch[1].fetched) = 2
    /\ orch[1].remaining = 2

\* C10 as claimed (liveness of the orchestrator): the run ends, and when it ends
\* by finding nothing remaining every unit of the selected shard has a record.
C10_ShardComplete ==
    [][ (orch[1].pc # "done" /\ orch'[1].pc = "done")
           => ShardSet(1) \subseteq RecordIds(fs'["web"]) ]_vars

\* C10 as amended: with no batch cap the run ends (by finding nothing remaining,
\* by a failed batch or by an invalid shard), and when it ends by finding
\* nothing remaining every unit of the selected shard, of the allow-list too
\* when one is given, has a record, ok or error.
C10_TerminatesComplete ==
    /\ <>(orch[1].pc \in {"done", "failed", "exit"})
    /\ [][ (orch[1].pc # "done" /\ orch'[1].pc = "done")
              => EligibleSet(1) \subseteq RecordIds(fs'["web"]) ]_vars

C10_Witness ==
    /\ orch[1].pc = "done"
    /\ oMaxBatches = 0
    /\ orch[1].launched = 2
    /\ orch[1].total = 2
    /\ orch[1].allow.given
    /\ EligibleSet(1) # ShardSet(1)
    /\ \E k \in 1..Len(fs["web"].lines) : fs["web"].lines[k].st = "error"

\* The ids that have an error record in a ledger.
ErrorIds(f) ==
    {f.lines[k].id : k \in {j \in 1..Len(f.lines) : f.lines[j].kind = "rec" /\ f.lines[j].st = "error"}}

\* C11 (errored units are done for extraction runs): the remaining list of the
\* batch extractor and the remaining count of the orchestrator leave out every
\* unit that has an error record in the ledger, and no extraction run fetches
\* a unit that has an error record in the ledger.
C11_ErroredUnitsDone ==
    [][ /\ (bPc = "start" /\ bPc' \in {"launch", "finished"})
              => SeqRange(bRemaining') \cap ErrorIds(fs["ledger"]) = {}
        /\ (bFetched' \ bFetched) \cap ErrorIds(fs["ledger"]) = {}
        /\ \A p \in Procs :
              /\ (orch[p].pc = "loop" /\ orch'[p].pc # "loop")
                    => orch'[p].remaining
                          <= Cardinality(orch[p].eligible_ids \ ErrorIds(fs["web"]))
              /\ (orch'[p].fetched \ orch[p].fetched) \cap ErrorIds(fs["web"]) = {} ]_vars

C11_Witness ==
    /\ bRuns = 2
    /\ bPc = "write"
    /\ bFetched # {}
    /\ ErrorIds(fs["ledger"]) # {}
    /\ ErrorIds(fs["ledger"]) \subseteq bDone
    /\ bFetched \cap ErrorIds(fs["ledger"]) = {}

\* C12 (session failure aborts the batch): a batch whose initial navigation
\* failed is aborted: it never reaches the loop over its units, so none of them
\* is fetched and no record is appended for them.
C12_SessionFailureAborts ==
    ~bNavOk => bPc \notin {"fetch", "write", "flush", "close"}

\* C13 (one record per unit per batch): when the fetch of a unit of the batch
\* starts, and when extract_batch has completed, the ledger ends with one
\* complete line for each unit of the batch processed so far, the j-th of them
\* carrying the id of the j-th unit of the batch.
C13_OneRecordPerUnit ==
    bPc \in {"fetch", "close"} =>
        LET k  == IF bPc = "close" THEN Len(bBatch) ELSE bPos - 1
            ls == fs["ledger"].lines
            n  == Len(ls)
        IN  /\ n >= k
            /\ k > 0 => fs["ledger"].eol
            /\ \A j \in 1..k :
                  /\ ls[n - k + j].kind = "rec"
                  /\ ls[n - k + j].id = bBatch[j]

\* C14 (per-unit errors do not abort the batch or the run): whatever the
\* results of the fetches, ok or error, a completed batch has appended one
\* record for each of its units, in order, and its success count is the number
\* of those records without the error flag; a run that finished has fetched
\* and appended every unit of remaining, in order.
C14_ErrorsDoNotAbort ==
    /\ bPc = "close" =>
          LET k == Len(bBatch)
              n == Len(bAppended)
          IN  /\ n >= k
              /\ \A j \in 1..k : bAppended[n - k + j].id = bBatch[j]
              /\ bSuccess = Cardinality({j \in 1..k : bAppended[n - k + j].st = "ok"})
    /\ bPc = "finished" =>
          LET k == Len(bRemaining)
              n == Len(bAppended)
          IN  /\ n >= k
              /\ bFetched = SeqRange(bRemaining)
              /\ \A j \in 1..k : bAppended[n - k + j].id = bRemaining[j]

C14_Witness ==
    /\ bPc = "finished"
    /\ bBatchSize = 1
    /\ Len(bRemaining) = 2
    /\ bBatchNum = 2
    /\ bSuccess = 1
    /\ bAppended[Len(bAppended) - 1].st = "error"
    /\ bAppended[Len(bAppended)].st = "ok"

\* The page fetches of the call so far, in order, each with its response.
Fetches == SelectSeq(fLog, LAMBDA e : e.ev = "fetch")

\* The items of a sequence of page fetches, page after page.
RECURSIVE PagesItems(_)
PagesItems(fetches) ==
    IF fetches = <<>> THEN <<>> ELSE Head(fetches).r.pubs \o PagesItems(Tail(fetches))

RECURSIVE PagesSize(_)
PagesSize(fetches) ==
    IF fetches = <<>> THEN 0 ELSE Len(Head(fetches).r.pubs) + PagesSize(Tail(fetches))

\* C15 (paginator result on success): when the call has returned and every
\* page fetch succeeded, the record is a success record whose item list is the
\* concatenation, in fetch order, of the items of the pages fetched and whose
\* item count is the sum of the page sizes.
C15_SuccessRecord ==
    (fPc = "returned" /\ \A k \in 1..Len(Fetches) : Fetches[k].r.kind = "ok") =>
        /\ ~fResult.error
        /\ fResult.has_pubs
        /\ fResult.pubs = PagesItems(Fetches)
        /\ fResult.count = PagesSize(Fetches)

C15_Witness ==
    /\ fPc = "returned"
    /\ Len(Fetches) = 3
    /\ \A k \in 1..3 : Fetches[k].r.kind = "ok" /\ Fetches[k].r.pubs # <<>>
    /\ Fetches[3].r.token = ""
    /\ fResult.count = Len(Fetches[1].r.pubs) + Len(Fetches[2].r.pubs) + Len(Fetches[3].r.pubs)
    /\ fResult.count >= 4

\* A response after which the loop goes on.
Continues(r) == r.kind = "ok" /\ r.token # "" /\ r.pubs # <<>>

\* C16 (paginator stop condition): the first fetch carries the empty token and
\* each later fetch the token of the response before it; a fetch is followed by
\* another one only if its response was a success with a non-empty token and
\* a non-empty page; and the call does not return after such a response.
C16_StopCondition ==
    /\ \A k \in 1..Len(Fetches) :
          /\ Fetches[k].token = IF k = 1 THEN "" ELSE Fetches[k - 1].r.token
          /\ k < Len(Fetches) => Continues(Fetches[k].r)
    /\ (fPc = "returned" /\ Fetches # <<>>) => ~Continues(Fetches[Len(Fetches)].r)
    /\ (fPc \in {"sleep", "fetch"} /\ Fetches # <<>>) => Continues(Fetches[Len(Fetches)].r)

C16_Witness ==
    /\ fPc = "returned"
    /\ Len(Fetches) = 3
    /\ Fetches[2].token = "t1"
    /\ Fetches[3].token = "t2"
    /\ Fetches[3].r.kind = "ok"
    /\ Fetches[3].r.pubs = <<>>

\* C17 (paginator result on failure): a page fetch that raises or reports a
\* non-success result is the last fetch of the call, and the call returns one
\* record, flagged as error, without an item list; the pages fetched before
\* the failure give no success record.
C17_FailureRecord ==
    \A k \in 1..Len(Fetches) :
        Fetches[k].r.kind # "ok" =>
            /\ k = Len(Fetches)
            /\ fPc = "returned"
            /\ fResult.error
            /\ ~fResult.has_pubs
            /\ fResult.pubs = <<>>

C17_Witness ==
    /\ fPc = "returned"
    /\ Len(Fetches) = 3
    /\ Fetches[1].r.pubs # <<>>
    /\ Fetches[3].r.kind = "raise"
    /\ fResult.error

\* The attempts in which a page was fetched.
AttemptsMade == {Fetches[k].attempt : k \in 1..Len(Fetches)}

\* The page fetches of attempt a.
FetchesOf(a) == SelectSeq(Fetches, LAMBDA e : e.attempt = a)

\* Attempt a ended with a successful last page.
Succeeded(a) ==
    /\ FetchesOf(a) # <<>>
    /\ \A k \in 1..Len(FetchesOf(a)) : FetchesOf(a)[k].r.kind = "ok"
    /\ FetchesOf(a)[Len(FetchesOf(a))].r.token = ""

\* Attempt a ended with a failed fetch.
Failed(a) ==
    /\ FetchesOf(a) # <<>>
    /\ FetchesOf(a)[Len(FetchesOf(a))].r.kind # "ok"

\* C18 (bounded retry): the attempts made for a failed unit are 1..n with
\* 1 <= n <= max_attempts, where a max_attempts below 1 counts as 1; every
\* attempt before the n-th failed; the call returns after the first attempt
\* that succeeds, or after attempt max_attempts when all failed; the attempt
\* count of the result and of the replacement record is n.
C18_BoundedRetry ==
    LET limit == IF fMax < 1 THEN 1 ELSE fMax
        n     == Cardinality(AttemptsMade)
    IN  /\ AttemptsMade = 1..n
        /\ n <= limit
        /\ \A a \in 1..(n - 1) : Failed(a)
        /\ fPc \in {"areturned", "replaced"} =>
              /\ n >= 1
              /\ fResult.attempt = n
              /\ IF fResult.error
                 THEN Failed(n) /\ n = limit
                 ELSE Succeeded(n)
        /\ fPc = "replaced" =>
              /\ fRepl.retry_attempts = n
              /\ fRepl.error = fResult.error

C18_Witness ==
    /\ fPc = "replaced"
    /\ fMax = 2
    /\ Failed(1)
    /\ Len(FetchesOf(1)) = 2
    /\ Succeeded(2)
    /\ fRepl.retry_attempts = 2
    /\ ~fRepl.error

(***************************************************************************)
(* The retry patcher as a whole: a run of main() over a ledger, in which   *)
(* the retry of a unit is one step, and the retry of one unit in detail.   *)
(***************************************************************************)
InitPatcher == InitPatch \/ InitRetry

NextPatcher == NextPatch \/ NextRetry

SpecPatcher == InitPatcher /\ [][NextPatcher]_vars

\* The retry loop of main() has ended.
AfterRetryLoop == pPc \in {"rewrite", "rewriting", "backup", "copying", "rename", "verify"}

\* C19 (replacement records): after the retry loop the replacement set holds
\* one record, marked retried, for each id that had an error record in the
\* input ledger and for no other id.  The replacement of a unit is marked
\* retried; when an attempt succeeded it has no error flag, the items fetched
\* in that attempt and the number of attempts made; when all attempts failed
\* it has the error flag and no items.
C19_ReplacementRecords ==
    /\ AfterRetryLoop =>
          /\ DOMAIN pRepl = ErrorIds(pOrig)
          /\ \A i \in DOMAIN pRepl :
                pRepl[i].kind = "rec" /\ pRepl[i].id = i /\ pRepl[i].retried
    /\ fPc = "replaced" =>
          LET n == Cardinality(AttemptsMade)
          IN  /\ fRepl.id = fOrg
              /\ fRepl.retried
              /\ fRepl.retry_attempts = n
              /\ IF \E a \in AttemptsMade : Succeeded(a)
                 THEN /\ ~fRepl.error
                      /\ fRepl.has_pubs
                      /\ fRepl.pubs = PagesItems(FetchesOf(n))
                      /\ fRepl.count = PagesSize(FetchesOf(n))
                 ELSE /\ fRepl.error
                      /\ ~fRepl.has_pubs

C19_Witness ==
    /\ pPc = "rewrite"
    /\ ErrorIds(pOrig) = {"a", "b"}
    /\ Len(pOrig.lines) = 3
    /\ pRepl["a"] = Rec("a", "ok", TRUE)
    /\ pRepl["b"] = Rec("b", "error", TRUE)

\* C20 (only failed units are retried): the ids the patcher retries, those it
\* has retried and those it still has to, are ids with an error record in the
\* input ledger; no id is retried twice in a run, however many error lines it
\* has.
C20_OnlyFailedUnitsRetried ==
    pPc \notin {"off", "scan"} =>
        /\ DOMAIN pRepl \subseteq ErrorIds(pOrig)
        /\ SeqRange(pErrorIds) \subseteq ErrorIds(pOrig)
        /\ Cardinality(SeqRange(pErrorIds)) = Len(pErrorIds)
        /\ DOMAIN pRepl \cap SeqRange(pErrorIds) = {}
        /\ pPc = "retry" => DOMAIN pRepl \cup SeqRange(pErrorIds) = ErrorIds(pOrig)

C20_Witness ==
    /\ pPc = "rewrite"
    /\ pOrig.lines = <<Rec("a", "error", FALSE), Rec("b", "ok", FALSE), Rec("a", "error", FALSE)>>
    /\ DOMAIN pRepl = {"a"}

\* C21 (backup ordering in in-place mode): in place, from the moment
\* os.replace has put the patched file at the ledger path, the backup file
\* exists, complete, with the content the ledger had before the patch, and it
\* stays so to the end of the run.
C21_BackupBeforeRename ==
    (pInplace /\ pRenamed) => fs["backup"] = pOrig

C21_Witness ==
    /\ pInplace
    /\ pRenamed
    /\ pPc = "finished"
    /\ fs["backup"] = pOrig
    /\ fs["ledger"] # pOrig
    /\ Len(pOrig.lines) = MaxLedger

\* C22 (patch rewrite failure leaves the ledger untouched): when writing the
\* temporary patched file fails at a line, the run ends with the error: no
\* backup file exists, no rename has happened, the ledger is the one the run
\* started with; and a temporary file with a partly written line is never
\* carried on to the backup or the rename.
C22_RewriteFailureHarmless ==
    /\ pPc = "raised" =>
          /\ ~pRenamed
          /\ ~fs["backup"].exists
          /\ ~fs["patched"].exists
          /\ fs["ledger"] = pOrig
    /\ (pPc # "off" /\ ~fs[tmp_out].eol) => pPc \in {"raised", "dead"}

C22_Witness ==
    /\ pPc = "raised"
    /\ pInplace
    /\ pPos = 2
    /\ ~fs[tmp_out].eol
    /\ Len(fs[tmp_out].lines) = 2
    /\ fs["ledger"] = pOrig
    /\ ~fs["backup"].exists

\* C23 (malformed ledger lines are never fatal to the patcher): on a ledger
\* holding a line that is no parseable record, the scan for failed records
\* passes over the line and completes: it never ends the run with an error.
C23_MalformedNotFatal ==
    [][(PScan /\ \E k \in 1..Len(fs["ledger"].lines) :
                     fs["ledger"].lines[k].kind \notin {"rec", "blank"})
          => pPc' \in {"retry", "finished"}]_vars

\* C24 (done-set scan tolerates malformed lines): a scan of a ledger never
\* fails; it returns the ids of all the well-formed records of the file,
\* error records included, whatever lines that do not parse or that parse to
\* something else than an object stand between them; a missing file gives the
\* empty set.
C24_ScanTolerant ==
    scanPc \in {"done", "raised"} =>
        /\ scanPc = "done"
        /\ scanIds = RecordIds(fs["ledger"])

\* C25 (batch-count cap): with --max-batches N > 0 a run launches at most N
\* batches, and when it stops on the cap it has launched exactly N and units
\* remain; with --max-batches 0 a run never stops on the cap.
C25_BatchCap ==
    \A p \in Procs :
        /\ oMaxBatches > 0 => orch[p].launched <= oMaxBatches
        /\ orch[p].pc = "capped" =>
              /\ oMaxBatches > 0
              /\ orch[p].launched = oMaxBatches
              /\ orch[p].remaining > 0
              /\ orch[p].cpc = "none"

C25_Witness ==
    /\ orch[1].pc = "capped"
    /\ orch[1].launched = oMaxBatches
    /\ orch[1].remaining > 0
    /\ orch[1].eligible_ids \ RecordIds(fs["web"]) # {}

\* C26 (fatal batch failure propagates): when the batch child has ended with
\* a non-zero exit code the orchestrator run ends with the error, leaving the
\* ledger as the child left it; a run that has ended so takes no further
\* step: it launches no batch and writes nothing.
C26_BatchFailurePropagates ==
    [][\A p \in Procs :
          /\ (orch[p].pc = "child" /\ orch[p].cpc = "exit1" /\ orch'[p] # orch[p]) =>
                /\ orch'[p].pc = "failed"
                /\ orch'[p].launched = orch[p].launched
                /\ fs' = fs
          /\ orch[p].pc = "failed" =>
                /\ orch'[p] = orch[p]
                /\ RecordLines(fs'["web"]) # RecordLines(fs["web"]) => oEdits' # oEdits]_vars

C26_Witness ==
    /\ orch[1].pc = "failed"
    /\ orch[1].launched = 2
    /\ orch[1].cwritten = 1
    /\ orch[1].remaining > 0
    /\ Len(fs["web"].lines) >= 2

\* C27 (orchestrator time-box): once the wall-clock budget of the run has
\* elapsed the orchestrator starts no new batch.
C27_NoBatchAfterBudget ==
    [][\A p \in Procs :
          (orch[p].pc # "child" /\ orch'[p].pc = "child") => oClock # "elapsed"]_vars

\* C28 (invalid shard configuration fails fast): a run started with
\* shard_index < 0 or shard_index >= shard_total ends with the invalid-shard
\* error while it loads its universe: it launches no batch, fetches nothing
\* and leaves the ledger as it is.
C28_InvalidShardFailsFast ==
    [][\A p \in Procs :
          (/\ orch[p].pc = "init"
           /\ orch[p].shard_index < 0 \/ orch[p].shard_index >= oShardTotal
           /\ orch'[p] # orch[p]) =>
              /\ orch'[p].pc = "exit"
              /\ orch'[p].launched = 0
              /\ orch'[p].fetched = {}
              /\ fs' = fs]_vars

\* The batches 1..k of main(), one after the other.
RECURSIVE BatchesUpTo(_)
BatchesUpTo(k) ==
    IF k = 0 THEN <<>> ELSE BatchesUpTo(k - 1) \o Batch(bRemaining, bBatchSize, k)

\* C29 (batches and sessions): the batches are consecutive slices of one to
\* batch_size units whose concatenation is the remaining list; the units of
\* batch k are fetched while session k, opened for that batch before its first
\* fetch, is the open one: the number of sessions opened so far is the number
\* of the batch at every step of the batch, and between two batches no session
\* is open.
C29_BatchesAndSessions ==
    bPc \in {"launch", "goto", "open", "fetch", "write", "flush", "close"} =>
        /\ BatchesUpTo(NumBatches(bRemaining, bBatchSize)) = bRemaining
        /\ \A k \in 1..NumBatches(bRemaining, bBatchSize) :
              /\ Len(Batch(bRemaining, bBatchSize, k)) >= 1
              /\ Len(Batch(bRemaining, bBatchSize, k)) <= bBatchSize
        /\ bBatchNum \in 1..NumBatches(bRemaining, bBatchSize)
        /\ bPc = "launch" => (bSession = "none" /\ bSessions = bBatchNum - 1)
        /\ bPc # "launch" => (bSession = "open" /\ bSessions = bBatchNum)
        /\ bFetched \subseteq SeqRange(BatchesUpTo(bBatchNum))
        /\ bPc \in {"fetch", "write", "flush"} =>
              SeqRange(BatchesUpTo(bBatchNum - 1)) \subseteq bFetched

C29_Witness ==
    /\ bPc = "write"
    /\ bBatchSize = 1
    /\ Len(bRemaining) = 2
    /\ bBatchNum = 2
    /\ bSessions = 2
    /\ bSession = "open"
    /\ bFetched = SeqRange(bRemaining)

\* C30 (session teardown on all exit paths): outside of a call of
\* extract_batch no session is open: after the call has returned (the next
\* batch is about to start, or the run is finished) and after an exception
\* has left it (the run has ended with the error).
C30_SessionReleased ==
    bPc \in {"start", "launch", "finished", "crashed"} => bSession = "none"

C30_Witness ==
    /\ bPc = "crashed"
    /\ bBatchNum = 2
    /\ bSessions = 2
    /\ bPos = 1
    /\ bWrote
    /\ bSession = "none"

IsRefresh(e) == e.ev \in {"reload", "goto", "failed"}

IsFailedFetch(e) == e.ev = "fetch" /\ e.r.kind # "ok"

\* C31 (session refresh between retry attempts): in the history of one call,
\* a refresh comes right after the failed fetch that ended an attempt which
\* was not the last one, and is followed by one backoff sleep and then by the
\* first fetch of the next attempt; the first fetch of every attempt after
\* the first comes right after such a refresh and backoff; the call returns
\* right after a fetch, never after a refresh or a backoff; a refresh that
\* failed is followed like any other.
C31_RefreshBetweenAttempts ==
    /\ \A k \in 1..Len(fLog) :
          /\ IsRefresh(fLog[k]) =>
                /\ k > 1
                /\ IsFailedFetch(fLog[k - 1])
                /\ fLog[k - 1].attempt = fLog[k].attempt
                /\ fLog[k].attempt < max_attempts
                /\ k < Len(fLog) => fLog[k + 1].ev = "backoff"
                /\ k = Len(fLog) => fPc = "backoff"
          /\ fLog[k].ev = "backoff" =>
                /\ k > 1
                /\ IsRefresh(fLog[k - 1])
                /\ k < Len(fLog) =>
                      /\ fLog[k + 1].ev = "fetch"
                      /\ fLog[k + 1].attempt = fLog[k].attempt + 1
                /\ k = Len(fLog) => (fPc = "afetch" /\ fAttempt = fLog[k].attempt + 1)
          /\ (fLog[k].ev = "fetch" /\ k > 1 /\ fLog[k - 1].attempt # fLog[k].attempt) =>
                /\ fLog[k - 1].ev = "backoff"
                /\ fLog[k].attempt = fLog[k - 1].attempt + 1
          /\ (IsFailedFetch(fLog[k]) /\ k < Len(fLog)) => IsRefresh(fLog[k + 1])
    /\ (fPc \in {"areturned", "replaced"} /\ fLog # <<>>) =>
          /\ fLog[Len(fLog)].ev = "fetch"
          /\ fLog[Len(fLog)].attempt = fResult.attempt

C31_Witness ==
    /\ fPc = "replaced"
    /\ ~fResult.error
    /\ fResult.attempt = 2
    /\ Len(fLog) = 4
    /\ IsFailedFetch(fLog[1])
    /\ fLog[2].ev = "failed"
    /\ fLog[3].ev = "backoff"
    /\ fLog[4].ev = "fetch"

\* C32 (polite delay between page fetches): in the history of the fetches
\* of one unit no two fetches follow each other directly: after a fetch that
\* is not the last one comes the sleep between pages, or, in the retry
\* patcher after a failed fetch, the refresh and the backoff sleep; a sleep
\* between pages is always followed by the next fetch of the same attempt,
\* and the call returns right after a fetch, with no sleep after it.
C32_PoliteDelay ==
    /\ \A k \in 1..Len(fLog) :
          /\ (fLog[k].ev = "fetch" /\ k < Len(fLog)) =>
                \/ fLog[k + 1].ev = "sleep"
                \/ /\ IsRefresh(fLog[k + 1])
                   /\ k + 1 < Len(fLog) => fLog[k + 2].ev = "backoff"
          /\ fLog[k].ev = "sleep" =>
                /\ k > 1
                /\ fLog[k - 1].ev = "fetch"
                /\ fLog[k - 1].r.kind = "ok"
                /\ fLog[k - 1].r.token # ""
                /\ k < Len(fLog) =>
                      /\ fLog[k + 1].ev = "fetch"
                      /\ fLog[k + 1].attempt = fLog[k].attempt
                /\ k = Len(fLog) => fPc \in {"fetch", "afetch"}
    /\ (fPc \in {"returned", "areturned", "replaced"} /\ fLog # <<>>) =>
          fLog[Len(fLog)].ev = "fetch"

C32_Witness ==
    /\ fPc = "returned"
    /\ ~fResult.error
    /\ Len(fLog) = 5
    /\ fLog[1].ev = "fetch"
    /\ fLog[2].ev = "sleep"
    /\ fLog[3].ev = "fetch"
    /\ fLog[4].ev = "sleep"
    /\ fLog[5].ev = "fetch"

\* C33 (stop rule of the retry patcher's paginator): within one attempt no
\* fetch follows a successful response whose continuation token is empty or
\* whose page of items is empty.
C33_RetryStopRule ==
    \A k \in 1..Len(fLog) :
        (/\ fLog[k].ev = "fetch"
         /\ fLog[k].attempt >= 1
         /\ fLog[k].r.kind = "ok"
         /\ fLog[k].r.token = "" \/ fLog[k].r.pubs = <<>>) =>
            /\ k = Len(fLog)
            /\ fPc \in {"areturned", "replaced"}

\* The ledger lines of unit number u of the single-session extractor.
LinesOfUnit(u) == SelectSeq(fs["ledger"].lines, LAMBDA l : l.id = IdOrder[u])

UnitFailed(u) == \E k \in 1..Len(fLog) : fLog[k].attempt = u /\ IsFailedFetch(fLog[k])

\* C34 (single-session extractor, one line per unit): every unit the run is
\* through with has exactly one line in the ledger: an error record when one
\* of its fetches failed, a success record otherwise.
C34_OneLinePerUnit ==
    fPc \in {"sfetch", "ssleep", "srec", "sdone"} =>
        \A u \in 1..MaxUnits :
            (u < fAttempt \/ fPc = "sdone") =>
                /\ Len(LinesOfUnit(u)) = 1
                /\ LinesOfUnit(u)[1].st = IF UnitFailed(u) THEN "error" ELSE "ok"

\* C35 (the patcher never changes an ok line): once the rewrite has run to
\* its end, every line of the input that is a record without the error flag
\* stands unchanged in the patched file, at the same place among the lines
\* that are not blank.
C35_OkLinesUnchanged ==
    Rewritten =>
        LET inl == SelectSeq(pOrig.lines, LAMBDA l : l.kind # "blank")
            out == fs[tmp_out].lines
        IN  \A k \in 1..Len(inl) :
                (inl[k].kind = "rec" /\ inl[k].st = "ok") =>
                    (k <= Len(out) /\ out[k] = inl[k])

\* C36 (resume after a partial trailing line): a record whose write and flush
\* have completed is found by the done-set scans of the following runs, also
\* when it was the first one appended after a crash had left a partial last
\* line: no run fetches the unit of such a record again.
C36_AppendedAfterTornIsDone ==
    bPc = "write" => \A k \in 1..Len(bAppended) : bAppended[k].id # bCur.id

\* C37 (retry patcher and a running extraction): every record an extraction
\* appended to the ledger between the patcher's scan and its in-place rename
\* is a line of the ledger once the patcher has finished.
C37_ConcurrentAppendsKept ==
    (pPc = "finished" /\ pRenamed) =>
        \A k \in 1..Len(bAppended) :
            \E j \in 1..Len(fs["ledger"].lines) : fs["ledger"].lines[j] = bAppended[k]

\* C38 (the input ledger is only replaced with a backup): in every run,
\* whatever --output and --inplace are, the file at the input path is the one
\* the run started with, or a backup copy of that file has been written.
C38_ReplacedOnlyWithBackup ==
    pPc # "off" => (fs["ledger"] = pOrig \/ fs["backup"] = pOrig)

\* C39 (attempt isolation in the retry patcher): the first fetch of every
\* attempt sends the empty token; the items of a successful result and of the
\* replacement record built from it are the items of the pages fetched in the
\* successful attempt, page after page, and the count is their number: no
\* item of an earlier attempt is among them.
C39_AttemptIsolation ==
    /\ \A a \in AttemptsMade : FetchesOf(a)[1].token = ""
    /\ (fPc \in {"areturned", "replaced"} /\ ~fResult.error /\ fResult.attempt >= 1) =>
          fResult.pubs = PagesItems(FetchesOf(fResult.attempt))
    /\ (fPc = "replaced" /\ ~fRepl.error /\ fResult.attempt >= 1) =>
          /\ fRepl.pubs = PagesItems(FetchesOf(fResult.attempt))
          /\ fRepl.count = PagesSize(FetchesOf(fResult.attempt))
          /\ \A k \in 1..Len(fRepl.pubs) : fRepl.pubs[k] \div 100 = fResult.attempt

C39_Witness ==
    /\ fPc = "replaced"
    /\ ~fRepl.error
    /\ fResult.attempt = 2
    /\ Len(FetchesOf(1)) = 2
    /\ FetchesOf(1)[1].r.pubs # <<>>
    /\ Len(fRepl.pubs) = 2

\* C40 (snapshot only from a complete pagination): the snapshot file of the
\* catalog exists only when the last page fetch of the run succeeded and gave
\* the no-more-data signal, an empty token or an empty page.
C40_SnapshotOnlyWhenComplete ==
    fs["catalog"].exists =>
        /\ fLog # <<>>
        /\ LET last == fLog[Len(fLog)]
           IN  /\ last.ev = "fetch"
               /\ last.r.kind = "ok"
               /\ (last.r.token = "" \/ last.r.pubs = <<>>)

\* C5 (partition completeness): for every shard_total >= 1 and every universe,
\* the sets selected for the shard indexes 0 .. shard_total-1 are pairwise
\* disjoint and their union is the whole universe.
C5_PartitionComplete ==
    shTotal >= 1 =>
        /\ \A i, j \in 0..(shTotal - 1) :
              (i # j /\ shSel[i].state = "ok" /\ shSel[j].state = "ok")
                  => shSel[i].ids \cap shSel[j].ids = {}
        /\ (\A i \in 0..(shTotal - 1) : shSel[i].state = "ok")
              => UNION {shSel[i].ids : i \in 0..(shTotal - 1)} = shUniverse
        /\ \A i \in 0..(shTotal - 1) : shSel[i].state # "exit"

C5_Witness ==
    /\ shTotal = 3
    /\ shUniverse = Ids
    /\ \A i \in 0..2 : shSel[i].state = "ok"
    /\ Cardinality({i \in 0..2 : shSel[i].ids # {}}) >= 2

====
